---- MODULE Spec2Model ----
(***************************************************************************)
(* Model of the minute aggregation hook of the sagrada dashboard           *)
(* (useHistory in web/src/hooks/useHistory.js, bundled into                *)
(* src/web/src/pages/Dashboard.jsx): per-location minute buffers, the      *)
(* bounded history, the asynchronous history fetch and the chart data.     *)
(*                                                                         *)
(* Encodings.  A JavaScript value handed to the hook as a reading value is *)
(* a record [k, n, d]: k = "num" is the rational n/d in lowest terms with  *)
(* d > 0, and k = "nan", "inf", "null", "undef" are NaN, Infinity, null    *)
(* and undefined (n = 0, d = 1).  A timestamp is a record [k, s]:          *)
(* k = "time" is an instant s seconds after the epoch, k = "null" and      *)
(* "undef" are null and undefined and k = "bad" is an unparseable string.  *)
(* A minute key "YYYY-MM-DDTHH:MM" is the number of whole minutes since    *)
(* the epoch.  A missing key of the history object reads as the empty      *)
(* list everywhere in the code (history[location] || []), so it is the     *)
(* empty sequence here.                                                    *)
(*                                                                         *)
(* The pure functions of the dashboard (calculateRateArray, formatRate in  *)
(* web/src/utils/rateCalculation.js, calculateEnergyFlow in                *)
(* web/src/utils/energyCalculation.js) are operators; each has a           *)
(* specification of its own whose initial states draw the arguments of one *)
(* call and whose single action records the value the call returns.        *)
(* Arithmetic is binary64: a rational stands for the double nearest to it  *)
(* and a double that is no short rational is a record of its own.  The     *)
(* websocket server of the API (api/src/websocket/index.ts) is the last    *)
(* part: the clients set, the connection handler on either side of its     *)
(* await, the close and error handlers, and broadcast.                     *)
(* The props the Dashboard hands to EnergyFlow, and the client's           *)
(* useWebSocket hook (web/src/hooks/useWebSocket.js: connect, the socket's *)
(* handlers, the reconnect timer and the effect cleanup) follow.           *)
(***************************************************************************)
EXTENDS Integers, Sequences, FiniteSets, TLC

\* ------------------------------------------------------------------ bounds
MaxReadings == 3
MaxFetches == 2
MaxStream == 61
BaseMinute == 100
MaxPoints == 7
MaxTenths == 250
MaxUpdates == 2
MaxDegrees == 6
MaxAttempts == 8
MaxMessages == 2
\* digits kept of a natural number in the binary64 arithmetic
BigWidth == 9

\* ------------------------------------------------------- program constants
HISTORY_MINUTES == 59
RATE_LOOKBACK_MINUTES == 5
TANK_THERMAL_MASS_J_PER_C == 316880
FLOOR_TO_ROOM_UA_W_PER_F == 6
BUILDING_UA_W_PER_F == 32
DEFAULT_HEATER_POWER_W == 1400
FLOOR_TRANSIT_MINUTES == 3

Locs == {"tank", "desk"}

\* ------------------------------------------------------- JavaScript values
RECURSIVE GCD(_, _)
GCD(a, b) == IF b = 0 THEN a ELSE GCD(b, a % b)

Abs(x) == IF x < 0 THEN -x ELSE x

\* the rational n/d (d # 0) in lowest terms with a positive denominator
Num(n, d) ==
    LET g == GCD(Abs(n), Abs(d))
        s == IF d < 0 THEN -1 ELSE 1
    IN  [k |-> "num", n |-> s * (n \div g), d |-> s * (d \div g)]

Int2V(i) == [k |-> "num", n |-> i, d |-> 1]
NaN == [k |-> "nan", n |-> 0, d |-> 1]
Infinity == [k |-> "inf", n |-> 0, d |-> 1]
JsNull == [k |-> "null", n |-> 0, d |-> 1]
JsUndefined == [k |-> "undef", n |-> 0, d |-> 1]

NegInfinity == [k |-> "ninf", n |-> 0, d |-> 1]

IsFiniteNum(v) == v.k \in {"num", "double"}

\* ToNumber: null is 0, undefined is NaN
ToNumber(v) ==
    CASE v.k = "null" -> Int2V(0)
      [] v.k = "undef" -> NaN
      [] OTHER -> v

\* -------------------------------------------------- binary64 arithmetic
\* The numbers of the code are doubles.  A natural number is the sequence
\* of its BigWidth digits to the base 2^14, lowest first.
BigBase == 2^14

\* the digits as a sequence
BigSeq(digits) == SubSeq(digits, 1, BigWidth)

\* for 0 <= n < 2^31, and back
BigOfInt(n) ==
    BigSeq([i \in 1..BigWidth |->
               IF i <= 3 THEN (n \div BigBase^(i - 1)) % BigBase ELSE 0])

BigToInt(a) == a[1] + BigBase * a[2] + BigBase * BigBase * a[3]

BigZero == BigOfInt(0)

BigDigit(a, i) == IF i >= 1 /\ i <= BigWidth THEN a[i] ELSE 0

\* the digits of the number with the columns s, each one the sum or the
\* difference of two digits: a one is carried into (borrowed from) column i
\* when a column below overflows (is negative) and every column in between
\* passes it on
BigCarried(s, i) ==
    IF \E j \in 1..(i - 1) :
           s[j] >= BigBase /\ \A l \in (j + 1)..(i - 1) : s[l] = BigBase - 1
    THEN 1
    ELSE IF \E j \in 1..(i - 1) :
                s[j] < 0 /\ \A l \in (j + 1)..(i - 1) : s[l] = 0
    THEN -1
    ELSE 0

BigCarry(s) ==
    BigSeq([i \in 1..BigWidth |-> (s[i] + BigCarried(s, i)) % BigBase])

BigAdd(a, b) == BigCarry(BigSeq([i \in 1..BigWidth |-> a[i] + b[i]]))

\* a - b for a >= b
BigSub(a, b) == BigCarry(BigSeq([i \in 1..BigWidth |-> a[i] - b[i]]))

\* a * digit for 0 <= digit <= BigBase
BigMulDigit(a, digit) ==
    BigAdd(BigSeq([i \in 1..BigWidth |-> (a[i] * digit) % BigBase]),
           BigSeq([i \in 1..BigWidth |->
                      (BigDigit(a, i - 1) * digit) \div BigBase]))

\* a * 2^count and floor(a / 2^count)
BigShl(a, count) ==
    BigSeq([i \in 1..BigWidth |->
               ((BigDigit(a, i - (count \div 14)) * 2^(count % 14)) % BigBase)
                   + ((BigDigit(a, i - (count \div 14) - 1) * 2^(count % 14))
                          \div BigBase)])

BigShr(a, count) ==
    BigSeq([i \in 1..BigWidth |->
               (BigDigit(a, i + (count \div 14)) \div 2^(count % 14))
                   + (BigDigit(a, i + (count \div 14) + 1) % 2^(count % 14))
                         * 2^(14 - (count % 14))])

\* a * b for b < 2^56: column i of the product, and the sum of the columns
BigColumn(a, b, i) ==
    BigDigit(a, i) * b[1] + BigDigit(a, i - 1) * b[2]
        + BigDigit(a, i - 2) * b[3] + BigDigit(a, i - 3) * b[4]

BigMul(a, b) ==
    BigAdd(BigAdd(BigSeq([i \in 1..BigWidth |-> BigColumn(a, b, i) % BigBase]),
                  BigSeq([i \in 1..BigWidth |->
                             (BigColumn(a, b, i - 1) \div BigBase) % BigBase])),
           BigSeq([i \in 1..BigWidth |->
                      BigColumn(a, b, i - 2) \div (BigBase * BigBase)]))

BigLess(a, b) ==
    \E i \in 1..BigWidth :
        a[i] < b[i] /\ \A j \in (i + 1)..BigWidth : a[j] = b[j]

\* the number of digits of a without the leading zeros, and of its bits
BigLen(a) ==
    IF a = BigZero THEN 0
    ELSE CHOOSE i \in 1..BigWidth :
             a[i] # 0 /\ \A j \in (i + 1)..BigWidth : a[j] = 0

BigBitsOf(a, len) ==
    IF len = 0 THEN 0
    ELSE 14 * (len - 1)
             + CHOOSE c \in 1..14 : 2^(c - 1) <= a[len] /\ a[len] < 2^c

BigBits(a) == BigBitsOf(a, BigLen(a))

\* the number of zero bits below the lowest one of a # 0
BigLowZerosOf(a, i) ==
    14 * (i - 1) + CHOOSE c \in 0..13 : a[i] % 2^(c + 1) = 2^c

BigLowZeros(a) ==
    BigLowZerosOf(a, CHOOSE i \in 1..BigWidth :
                         a[i] # 0 /\ \A j \in 1..(i - 1) : a[j] = 0)

\* the quotient and the remainder of r * BigBase^i by d for r < d, d of 4
\* digits with the highest at least BigBase / 2: r2 is the remainder so far
\* times BigBase, q the quotient digits found above digit i; a quotient
\* digit is at most 2 below its estimate from the leading digits
RECURSIVE BigDivFrom(_, _, _, _)

BigDivTake(d, i, r2, q, digit) ==
    BigDivFrom(d, i - 1, BigSub(r2, BigMulDigit(d, digit)),
               [q EXCEPT ![i] = digit])

BigDivNear(r2, d, guess) ==
    IF ~BigLess(r2, BigMulDigit(d, guess)) THEN guess
    ELSE IF ~BigLess(r2, BigMulDigit(d, guess - 1)) THEN guess - 1
    ELSE guess - 2

BigDivGuess(top, high) ==
    IF top \div high < BigBase - 1 THEN top \div high ELSE BigBase - 1

BigDivStep(d, i, r2, q) ==
    BigDivTake(d, i, r2, q,
               BigDivNear(r2, d, BigDivGuess(r2[5] * BigBase + r2[4], d[4])))

BigDivFrom(d, i, r, q) ==
    IF i = 0 THEN [q |-> q, r |-> r]
    ELSE BigDivStep(d, i, <<0>> \o SubSeq(r, 1, BigWidth - 1), q)

\* a finite double is (-1)^neg * m * 2^e with m odd, or m = 0 for zero (the
\* sign of zero, subnormal numbers and overflow are left out)
DoubleOdd(neg, m, e, zeros) ==
    [k |-> "double", neg |-> neg, m |-> BigShr(m, zeros), e |-> e + zeros]

DoubleZero == [k |-> "double", neg |-> FALSE, m |-> BigZero, e |-> 0]

DoubleValue(neg, m, e) ==
    IF m = BigZero THEN DoubleZero ELSE DoubleOdd(neg, m, e, BigLowZeros(m))

\* m has drop bits more than the 53 of a significand: with t its bits from
\* the highest of the dropped ones upwards, the significand goes one up
\* when that bit is set and a lower bit is set or the significand is odd
\* (ties to even)
RoundsUp(t, m, sticky, drop) ==
    /\ t[1] % 2 = 1
    /\ sticky \/ (t[1] \div 2) % 2 = 1 \/ BigShl(t, drop - 1) # m

RoundAt(neg, m, e, sticky, drop) ==
    DoubleValue(neg,
                BigAdd(BigShr(m, drop),
                       BigOfInt(IF /\ drop > 0
                                   /\ RoundsUp(BigShr(m, drop - 1), m, sticky,
                                               drop)
                                THEN 1 ELSE 0)),
                e + drop)

SignificandExcess(bits) == IF bits > 53 THEN bits - 53 ELSE 0

\* the double nearest to m * 2^e, or to a little more when sticky
RoundToDouble(neg, m, e, sticky) ==
    RoundAt(neg, m, e, sticky, SignificandExcess(BigBits(m)))

\* the double nearest to n / d * 2^e for n # 0 and d # 0 of at most 53
\* bits: with n scaled to 55 bits and d to 56 the quotient of n * 2^56 by d
\* has 4 digits and at least 55 bits
RoundQuotient(neg, qr, e) ==
    IF qr.r = BigZero THEN RoundToDouble(neg, qr.q, e, FALSE)
    ELSE RoundToDouble(neg, qr.q, e, TRUE)

DoubleQuotientOf(neg, n, nbits, d, dbits, e) ==
    RoundQuotient(neg,
                  BigDivFrom(BigShl(d, 56 - dbits), 4, BigShl(n, 55 - nbits),
                             BigZero),
                  e + nbits - dbits - 55)

DoubleQuotient(neg, n, d, e) ==
    DoubleQuotientOf(neg, n, BigBits(n), d, BigBits(d), e)

\* the double a number stands for: the one nearest to the rational
Double(v) ==
    IF v.k = "double" THEN v
    ELSE IF v.n = 0 THEN DoubleZero
    ELSE IF v.d = 1 THEN DoubleValue(v.n < 0, BigOfInt(Abs(v.n)), 0)
    ELSE DoubleQuotient(v.n < 0, BigOfInt(Abs(v.n)), BigOfInt(v.d), 0)

\* a rational below 2^20 in magnitude with at most 10 binary fraction
\* digits: it is a double, and the number it stands for is itself
IsShort(v) == v.k = "num" /\ Abs(v.n) < 2^20 /\ v.d <= 2^10 /\ 2^10 % v.d = 0

\* the number of a double, as a rational when it is a short one
FromDoubleShort(x, m) ==
    IF x.e >= 0 THEN Int2V(m * 2^(x.e)) ELSE Num(m, 2^(-x.e))

FromDoubleBits(x, bits) ==
    IF bits = 0 THEN Int2V(0)
    ELSE IF bits <= 20 /\ x.e >= -10 /\ bits + x.e <= 20
    THEN FromDoubleShort(x, BigToInt(x.m) * (IF x.neg THEN -1 ELSE 1))
    ELSE x

FromDouble(x) == FromDoubleBits(x, BigBits(x.m))

\* one more than the position of the highest bit of a # 0
DoubleTop(a) == BigBits(a.m) + a.e

DoubleLowExponent(a, b) == IF a.e < b.e THEN a.e ELSE b.e

\* a * b, a / b (b # 0), a + b and a - b of doubles
DoubleMul(a, b) ==
    IF a.m = BigZero \/ b.m = BigZero THEN DoubleZero
    ELSE RoundToDouble(a.neg # b.neg, BigMul(a.m, b.m), a.e + b.e, FALSE)

DoubleDiv(a, b) ==
    IF a.m = BigZero THEN DoubleZero
    ELSE DoubleQuotient(a.neg # b.neg, a.m, b.m, a.e - b.e)

\* (-1)^aneg * x * 2^e + (-1)^bneg * y * 2^e
DoubleSum(aneg, x, bneg, y, e) ==
    RoundToDouble(IF aneg = bneg \/ ~BigLess(x, y) THEN aneg ELSE bneg,
                  IF aneg = bneg THEN BigAdd(x, y)
                  ELSE IF BigLess(x, y) THEN BigSub(y, x) ELSE BigSub(x, y),
                  e, FALSE)

DoubleAligned(a, b, e) ==
    DoubleSum(a.neg, BigShl(a.m, a.e - e), b.neg, BigShl(b.m, b.e - e), e)

\* a term more than 64 binary places below the other one does not move it
DoubleAddAt(a, atop, b, btop) ==
    IF atop > btop + 64 THEN a
    ELSE IF btop > atop + 64 THEN b
    ELSE DoubleAligned(a, b, DoubleLowExponent(a, b))

DoubleAdd(a, b) ==
    IF a.m = BigZero THEN b
    ELSE IF b.m = BigZero THEN a
    ELSE DoubleAddAt(a, DoubleTop(a), b, DoubleTop(b))

DoubleSub(a, b) == DoubleAdd(a, [b EXCEPT !.neg = ~b.neg])

\* |a| < |b| and a < b of doubles
DoubleBelowAt(a, atop, b, btop, e) ==
    IF atop # btop THEN atop < btop
    ELSE BigLess(BigShl(a.m, a.e - e), BigShl(b.m, b.e - e))

DoubleBelow(a, b) ==
    IF b.m = BigZero THEN FALSE
    ELSE IF a.m = BigZero THEN TRUE
    ELSE DoubleBelowAt(a, DoubleTop(a), b, DoubleTop(b),
                       DoubleLowExponent(a, b))

DoubleLess(a, b) ==
    IF a.neg # b.neg THEN a.neg
    ELSE IF a.neg THEN DoubleBelow(b, a)
    ELSE DoubleBelow(a, b)

\* x op y on finite numbers (y # 0 for "/"): the exact result where x, y
\* and the result are short, and the rounded one of the doubles otherwise
NumberExact(op, x, y) ==
    CASE op = "+" -> Num(x.n * y.d + y.n * x.d, x.d * y.d)
      [] op = "-" -> Num(x.n * y.d - y.n * x.d, x.d * y.d)
      [] op = "*" -> Num(x.n * y.n, x.d * y.d)
      [] op = "/" -> Num(x.n * y.d, x.d * y.n)

NumberRounded(op, a, b) ==
    CASE op = "+" -> DoubleAdd(a, b)
      [] op = "-" -> DoubleSub(a, b)
      [] op = "*" -> DoubleMul(a, b)
      [] op = "/" -> DoubleDiv(a, b)

NumberFits(op, x, y) ==
    /\ IsShort(x)
    /\ IsShort(y)
    /\ op = "*" => y.n = 0 \/ Abs(x.n) <= 2^30 \div Abs(y.n)

Number(op, x, y) ==
    IF NumberFits(op, x, y) /\ IsShort(NumberExact(op, x, y))
    THEN NumberExact(op, x, y)
    ELSE FromDouble(NumberRounded(op, Double(x), Double(y)))

\* x < y on finite numbers
NumberLess(x, y) ==
    IF IsShort(x) /\ IsShort(y) THEN x.n * y.d < y.n * x.d
    ELSE DoubleLess(Double(x), Double(y))

IsNegative(v) ==
    IF v.k = "double" THEN v.neg ELSE IF v.k = "ninf" THEN TRUE ELSE v.n < 0

IsInfinite(v) == v.k \in {"inf", "ninf"}

IsZero(v) == v.k = "num" /\ v.n = 0

\* a + b on numbers
JsAdd(a, b) ==
    LET x == ToNumber(a)
        y == ToNumber(b)
    IN  CASE x.k = "nan" \/ y.k = "nan" -> NaN
          [] x.k = "inf" -> IF y.k = "ninf" THEN NaN ELSE Infinity
          [] x.k = "ninf" -> IF y.k = "inf" THEN NaN ELSE NegInfinity
          [] y.k \in {"inf", "ninf"} -> y
          [] OTHER -> Number("+", x, y)

\* a / len for a positive integer len
JsDivInt(a, len) ==
    LET x == ToNumber(a)
    IN  CASE x.k = "nan" -> NaN
          [] x.k \in {"inf", "ninf"} -> x
          [] OTHER -> Number("/", x, Int2V(len))

\* x < y on non-NaN numbers
JsLess(x, y) ==
    CASE x.k = "inf" \/ y.k = "ninf" -> FALSE
      [] y.k = "inf" \/ x.k = "ninf" -> TRUE
      [] OTHER -> NumberLess(x, y)

\* readings.reduce((a, b) => a + b, 0)
RECURSIVE SumFrom(_, _, _)
SumFrom(acc, readings, i) ==
    IF i > Len(readings) THEN acc
    ELSE SumFrom(JsAdd(acc, readings[i]), readings, i + 1)

Sum(readings) == SumFrom(Int2V(0), readings, 1)

\* Math.min(...readings) and Math.max(...readings): NaN if any argument is NaN
RECURSIVE MinFrom(_, _, _)
MinFrom(acc, readings, i) ==
    IF i > Len(readings) THEN acc
    ELSE LET x == ToNumber(readings[i])
         IN  IF acc.k = "nan" \/ x.k = "nan" THEN NaN
             ELSE MinFrom(IF JsLess(x, acc) THEN x ELSE acc, readings, i + 1)

MathMin(readings) == MinFrom(Infinity, readings, 1)

RECURSIVE MaxFrom(_, _, _)
MaxFrom(acc, readings, i) ==
    IF i > Len(readings) THEN acc
    ELSE LET x == ToNumber(readings[i])
         IN  IF acc.k = "nan" \/ x.k = "nan" THEN NaN
             ELSE MaxFrom(IF JsLess(acc, x) THEN x ELSE acc, readings, i + 1)

MathMax(readings) == MaxFrom(ToNumber(readings[1]), readings, 2)

\* ------------------------------------------------------------- timestamps
Time(s) == [k |-> "time", s |-> s]
TsNull == [k |-> "null", s |-> 0]
TsUndefined == [k |-> "undef", s |-> 0]
TsBad == [k |-> "bad", s |-> 0]

\* new Date(timestamp) is an Invalid Date
InvalidDate(ts) == ts.k \in {"undef", "bad"}

\* getMinuteKey: new Date(null) is the epoch; toISOString() of an Invalid
\* Date throws a RangeError (see InvalidDate), otherwise the key is the
\* instant truncated to the minute
getMinuteKey(ts) == IF ts.k = "null" THEN 0 ELSE ts.s \div 60

\* variant: the key of the minute after
KeyTimestampNext(minuteKey) == Time((minuteKey + 1) * 60)

\* buffer.minuteKey + ':00.000Z'
KeyTimestamp(minuteKey) == Time(minuteKey * 60)

\* ------------------------------------------------------------------ state
VARIABLES
    history,     \* useState history: location -> list of {timestamp, avg, min, max}
    current,     \* useState current: location -> latest {timestamp, value}, or unset
    buffer,      \* currentMinuteRef.current: location -> {readings, minuteKey}, or unset
    loading,     \* useState loading
    inflight,    \* number of fetchAllLocations calls awaiting their responses
    nFetches,    \* fetchAllLocations calls started so far
    nReadings,   \* updateReading calls so far
    opened,      \* location -> minute and values ingested since that minute was first read
    streak,      \* location -> run of one-reading-per-consecutive-minute ingests from empty
    lastOp,      \* the operation of the last step and its inputs
    prevTimestamps, \* Dashboard's prevTimestamps.current: location -> timestamp
    mounted,     \* the Dashboard is mounted: no longer once its effect threw
    call,        \* a call of a pure function: its name and arguments
    result,      \* the value that call returned, once it has returned
    clients,     \* websocket server: the module's Set of sockets
    readyState,  \* websocket server: socket -> "NONE", "OPEN" or "CLOSED"
    handler,     \* websocket server: socket -> position of its connection handler
    received,    \* socket -> the messages sent to it, in order
    current_readings, \* the rows of the current_readings table, in query order
    nUpdates,    \* sensor updates published so far
    uncaught,    \* websocket server: an exception nothing caught ended the process
    connectionState,    \* useWebSocket: useState connectionState
    ws,                 \* the WebSocket the hook created last: readyState, wasOpen
    wsRef,              \* wsRef.current: "ws" or "null"
    reconnectTimeoutRef, \* the timer of setTimeout: set, pending, delay
    reconnectAttempts,  \* reconnectAttempts.current
    effect,             \* the mount effect: "pending", "mounted" or "unmounted"
    scheduledSinceOpen, \* reconnects scheduled since the last open event
    owed,               \* an unclean close not yet followed by a reconnect attempt
    cancelled,          \* the cleanup cleared a pending timer
    delivered,          \* messages handed to the onMessage callback so far
    clientOp            \* the hook's last step

hookVars == <<history, current, buffer, loading, inflight, nFetches, nReadings,
              opened, streak, lastOp, prevTimestamps, mounted>>
pureVars == <<call, result>>
serverVars == <<clients, readyState, handler, received, current_readings,
                nUpdates, uncaught>>

clientVars == <<connectionState, ws, wsRef, reconnectTimeoutRef,
                reconnectAttempts, effect, scheduledSinceOpen, owed, cancelled,
                delivered, clientOp>>

vars == <<hookVars, pureVars, serverVars, clientVars>>

NoCurrent == [set |-> FALSE, timestamp |-> TsNull, value |-> JsNull]
NoBuffer == [open |-> FALSE, readings |-> <<>>, minuteKey |-> 0]
NoLens == [l \in Locs |-> 0]

Op(op, loc, ts, value, threw, lens) ==
    [op |-> op, loc |-> loc, ts |-> ts, value |-> value, threw |-> threw,
     lens |-> lens]

\* --------------------------------------------------------- history fetch
\* the API's answer for a location: n minute rows in ascending time, the
\* last one for minute BaseMinute, temperatures rounded to one decimal
SeedPoint(m) ==
    [timestamp |-> Time(m * 60),
     avg |-> Num(650 + (m % 5), 10),
     min |-> Num(648 + (m % 5), 10),
     max |-> Num(653 + (m % 5), 10)]

SeedData(n) == [i \in 1..n |-> SeedPoint(BaseMinute - n + i)]

\* Array.prototype.slice(0, -1)
SliceButLast(a) == SubSeq(a, 1, Len(a) - 1)

\* Array.prototype.slice(-n)
SliceLast(a, n) == IF Len(a) <= n THEN a ELSE SubSeq(a, Len(a) - n + 1, Len(a))

\* variant: the last row is kept in the history as well
SeedHistoryKeepLast(locationData) ==
    IF Len(locationData) > HISTORY_MINUTES
    THEN SliceLast(locationData, HISTORY_MINUTES)
    ELSE locationData

\* newHistory[result.location]
SeedHistory(locationData) ==
    IF Len(locationData) > 0
    THEN LET historyData == SliceButLast(locationData)
         IN  IF Len(historyData) > HISTORY_MINUTES
             THEN SliceLast(historyData, HISTORY_MINUTES)
             ELSE historyData
    ELSE <<>>

\* newCurrent[result.location]
SeedCurrent(locationData) ==
    IF Len(locationData) > 0
    THEN LET lastPoint == locationData[Len(locationData)]
         IN  [set |-> TRUE, timestamp |-> lastPoint.timestamp,
              value |-> lastPoint.avg]
    ELSE NoCurrent

\* currentMinuteRef.current[result.location] after a fetch
SeedBuffer(nowKey) == [open |-> TRUE, readings |-> <<>>, minuteKey |-> nowKey]

\* ---------------------------------------------------------- updateReading
\* readingMinuteKey !== buffer.minuteKey && buffer.readings.length > 0
CrossedMinute(buf, readingMinuteKey) ==
    readingMinuteKey # buf.minuteKey /\ Len(buf.readings) > 0

\* variant: the completed minute is summarised by its last reading alone
AggregatedPointLastOnly(buf) ==
    [timestamp |-> KeyTimestamp(buf.minuteKey),
     avg |-> ToNumber(buf.readings[Len(buf.readings)]),
     min |-> MathMin(buf.readings),
     max |-> MathMax(buf.readings)]

\* the aggregated point of the completed minute
AggregatedPoint(buf) ==
    [timestamp |-> KeyTimestamp(buf.minuteKey),
     avg |-> JsDivInt(Sum(buf.readings), Len(buf.readings)),
     min |-> MathMin(buf.readings),
     max |-> MathMax(buf.readings)]

\* variant: the new point is put in front
ShiftPrepend(locationHistory, aggregatedPoint) ==
    LET updated == <<aggregatedPoint>> \o locationHistory
    IN  IF Len(updated) > HISTORY_MINUTES THEN Tail(updated) ELSE updated

\* variant: the oldest point is never dropped
ShiftNoEvict(locationHistory, aggregatedPoint) ==
    Append(locationHistory, aggregatedPoint)

\* the setHistory updater: append, then drop the oldest beyond the cap
ShiftIntoHistory(locationHistory, aggregatedPoint) ==
    LET updated == Append(locationHistory, aggregatedPoint)
    IN  IF Len(updated) > HISTORY_MINUTES THEN Tail(updated) ELSE updated

\* variant: the buffer is not reset when a minute completes
NextBufferNoReset(buf, readingMinuteKey, value) ==
    [open |-> TRUE, readings |-> Append(buf.readings, value),
     minuteKey |-> readingMinuteKey]

\* the buffer after the reading
NextBuffer(buf, readingMinuteKey, value) ==
    IF CrossedMinute(buf, readingMinuteKey)
    THEN [open |-> TRUE, readings |-> <<value>>, minuteKey |-> readingMinuteKey]
    ELSE [open |-> TRUE, readings |-> Append(buf.readings, value),
          minuteKey |-> readingMinuteKey]

\* ------------------------------------------------------------ chart data
\* variant: the latest raw value is charted without smoothing
LivePointRaw(currentReading, buf) ==
    [timestamp |-> currentReading.timestamp,
     avg |-> currentReading.value,
     min |-> currentReading.value,
     max |-> currentReading.value]

\* the point pushed for the current reading
LivePoint(currentReading, buf) ==
    LET smoothedValue ==
            IF buf.open /\ Len(buf.readings) > 0
            THEN JsDivInt(Sum(buf.readings), Len(buf.readings))
            ELSE currentReading.value
    IN  [timestamp |-> currentReading.timestamp,
         avg |-> smoothedValue,
         min |-> currentReading.value,
         max |-> currentReading.value]

\* data[location]: history points plus the current point
data(loc) ==
    IF current[loc].set
    THEN Append(history[loc], LivePoint(current[loc], buffer[loc]))
    ELSE history[loc]

\* ----------------------------------------------------------- observation
\* the run of readings fed one per consecutive minute into an empty
\* aggregator: ok while the pattern holds, first = the first minute key,
\* n = readings so far
NoStreak == [ok |-> TRUE, first |-> 0, n |-> 0]

NextStreak(st, key) ==
    IF st.ok /\ st.n = 0 THEN [ok |-> TRUE, first |-> key, n |-> 1]
    ELSE IF st.ok /\ key = st.first + st.n THEN [st EXCEPT !.n = st.n + 1]
    ELSE [ok |-> FALSE, first |-> 0, n |-> 0]

\* the values read for a minute since a reading first named it
NoOpened == [key |-> 0, vals |-> <<>>]

NextOpened(o, key, value) ==
    IF o.vals # <<>> /\ o.key = key
    THEN [o EXCEPT !.vals = Append(o.vals, value)]
    ELSE [key |-> key, vals |-> <<value>>]

\* ---------------------------------------------------------------- actions
HookInit ==
    /\ history = [l \in Locs |-> <<>>]
    /\ current = [l \in Locs |-> NoCurrent]
    /\ buffer = [l \in Locs |-> NoBuffer]
    /\ loading = TRUE
    /\ inflight = 1
    /\ nFetches = 1
    /\ nReadings = 0
    /\ opened = [l \in Locs |-> NoOpened]
    /\ streak = [l \in Locs |-> NoStreak]
    /\ lastOp = Op("mount", "-", TsNull, JsNull, FALSE, NoLens)
    /\ prevTimestamps = [l \in Locs |-> TsUndefined]
    /\ mounted = TRUE

\* no pure function is being called
NoCall == [fn |-> "-"]
NoResult == [returned |-> FALSE]
PureIdle == call = NoCall /\ result = NoResult

\* the websocket server before any connection
Sockets == {"ws1", "ws2"}
Rows == <<"desk", "tank">>
ServerInit ==
    /\ clients = {}
    /\ readyState = [w \in Sockets |-> "NONE"]
    /\ handler = [w \in Sockets |-> "idle"]
    /\ received = [w \in Sockets |-> <<>>]
    /\ current_readings = Rows
    /\ nUpdates = 0
    /\ uncaught = FALSE

\* useWebSocket after its first render, before the mount effect has run
ClientInit ==
    /\ connectionState = "disconnected"
    /\ ws = [readyState |-> "NONE", wasOpen |-> FALSE]
    /\ wsRef = "null"
    /\ reconnectTimeoutRef = [set |-> FALSE, pending |-> FALSE, delay |-> 0]
    /\ reconnectAttempts = 0
    /\ effect = "pending"
    /\ scheduledSinceOpen = 0
    /\ owed = FALSE
    /\ cancelled = FALSE
    /\ delivered = 0
    /\ clientOp = "render"

Init == HookInit /\ PureIdle /\ ServerInit /\ ClientInit

\* refresh(): start another fetchAllLocations call
refresh ==
    /\ mounted
    /\ nFetches < MaxFetches
    /\ nFetches' = nFetches + 1
    /\ inflight' = inflight + 1
    /\ loading' = TRUE
    /\ lastOp' = Op("refresh", "-", TsNull, JsNull, FALSE, NoLens)
    /\ UNCHANGED <<history, current, buffer, nReadings, opened, streak,
                   prevTimestamps, mounted>>
    /\ UNCHANGED <<pureVars, serverVars, clientVars>>

\* the continuation of fetchAllLocations after the responses arrived:
\* lens[l] rows came back for location l (0 also stands for a failed or
\* unsuccessful request) and nowKey is getMinuteKey(new Date()).  The
\* continuation also runs once the Dashboard is unmounted: it writes the
\* ref, and the state setters of an unmounted component do nothing
fetchAllLocations(lens, nowKey) ==
    /\ inflight > 0
    /\ inflight' = inflight - 1
    /\ buffer' = [l \in Locs |-> SeedBuffer(nowKey)]
    /\ opened' = [l \in Locs |-> NoOpened]
    /\ IF mounted
       THEN /\ history' = [l \in Locs |-> SeedHistory(SeedData(lens[l]))]
            /\ current' = [l \in Locs |-> SeedCurrent(SeedData(lens[l]))]
            /\ loading' = FALSE
            /\ streak' = [l \in Locs |->
                            IF lens[l] = 0 THEN NoStreak
                            ELSE [ok |-> FALSE, first |-> 0, n |-> 0]]
       ELSE UNCHANGED <<history, current, loading, streak>>
    /\ lastOp' = Op("fetch", "-", TsNull, JsNull, FALSE, lens)
    /\ UNCHANGED <<nFetches, nReadings, prevTimestamps, mounted>>
    /\ UNCHANGED <<pureVars, serverVars, clientVars>>

\* { ...prev, [location]: updated }, and the same without the spread of prev
WithLocationOnly(prev, location, updated) ==
    [l \in Locs |-> IF l = location THEN updated ELSE <<>>]

WithLocation(prev, location, updated) == [prev EXCEPT ![location] = updated]

\* updateReading(location, {timestamp, value})
updateReading(loc, ts, value) ==
    IF InvalidDate(ts)
    THEN \* getMinuteKey throws before any state is touched; nothing
         \* catches the error on its way out of the effect and React
         \* unmounts the Dashboard
         /\ lastOp' = Op("updateReading", loc, ts, value, TRUE, NoLens)
         /\ nReadings' = nReadings + 1
         /\ mounted' = FALSE
         /\ UNCHANGED <<history, current, buffer, loading, inflight,
                        nFetches, opened, streak>>
         /\ UNCHANGED <<pureVars, serverVars, clientVars>>
    ELSE LET readingMinuteKey == getMinuteKey(ts)
             buf == IF buffer[loc].open THEN buffer[loc]
                    ELSE [open |-> TRUE, readings |-> <<>>,
                          minuteKey |-> readingMinuteKey]
         IN  /\ current' = [current EXCEPT
                              ![loc] = [set |-> TRUE, timestamp |-> ts,
                                        value |-> value]]
             /\ history' = IF CrossedMinute(buf, readingMinuteKey)
                           THEN WithLocation(history, loc,
                                    ShiftIntoHistory(history[loc],
                                                     AggregatedPoint(buf)))
                           ELSE history
             /\ buffer' = [buffer EXCEPT
                             ![loc] = NextBuffer(buf, readingMinuteKey, value)]
             /\ nReadings' = nReadings + 1
             /\ opened' = [opened EXCEPT
                             ![loc] = NextOpened(@, readingMinuteKey, value)]
             /\ streak' = [streak EXCEPT ![loc] = NextStreak(@, readingMinuteKey)]
             /\ lastOp' = Op("updateReading", loc, ts, value, FALSE, NoLens)
             /\ UNCHANGED <<loading, inflight, nFetches, mounted>>
             /\ UNCHANGED <<pureVars, serverVars, clientVars>>

\* Dashboard's effect on sensors, for one location: a sensor with a
\* temperature other than undefined and a truthy timestamp is handed to
\* updateReading when its timestamp differs from the one handed over last
\* for the location; prevTimestamps is written before the call.  The
\* effect runs while the Dashboard is mounted
sensorEffect(loc, sensor) ==
    /\ mounted
    /\ sensor.value.k # "undef"
    /\ sensor.timestamp.k \in {"time", "bad"}
    /\ prevTimestamps[loc] # sensor.timestamp
    /\ prevTimestamps' = [prevTimestamps EXCEPT ![loc] = sensor.timestamp]
    /\ updateReading(loc, sensor.timestamp, sensor.value)

\* ----------------------------------------------------------------- inputs
T1 == Time((BaseMinute + 1) * 60)
T1h == Time((BaseMinute + 1) * 60 + 30)
T2 == Time((BaseMinute + 2) * 60)
T3 == Time((BaseMinute + 3) * 60)

Reading(ts, value) == [timestamp |-> ts, value |-> value]

\* well-formed readings offered to a location: in and out of minute order,
\* two in one minute, a minute left out
Readings(loc) ==
    IF loc = "tank"
    THEN {Reading(T1, Int2V(10)), Reading(T1h, Int2V(13)),
          Reading(T2, Int2V(10)), Reading(T3, Int2V(14))}
    ELSE {Reading(T1, Int2V(13)), Reading(T2, Int2V(10))}

\* malformed sensors: non-finite and missing values, missing and
\* unparseable timestamps
BadReadings ==
    {Reading(T2, NaN), Reading(T2, Infinity), Reading(T2, JsNull),
     Reading(T2, JsUndefined),
     Reading(TsNull, Int2V(10)), Reading(TsUndefined, Int2V(10)),
     Reading(TsBad, Int2V(10))}

SeedLens == {0, 2}
NowKeys == {BaseMinute + 1, BaseMinute + 2}

Ingest ==
    /\ nReadings < MaxReadings
    /\ \E loc \in Locs : \E r \in Readings(loc) : sensorEffect(loc, r)

Fetched ==
    \E lens \in [Locs -> SeedLens], nowKey \in NowKeys :
        fetchAllLocations(lens, nowKey)

Next == refresh \/ Fetched \/ Ingest

Spec == Init /\ [][Next]_vars

\* ------------------------------------------- long, in-order reading stream
\* one location is fed one reading per consecutive minute, for more minutes
\* than the history holds, before and after the mount fetch answers with up
\* to more rows than the history holds
StreamLoc == "tank"
LongLens == {0, 1, HISTORY_MINUTES + 1, HISTORY_MINUTES + 2}

StreamKey ==
    IF prevTimestamps[StreamLoc].k = "time"
    THEN getMinuteKey(prevTimestamps[StreamLoc]) + 1
    ELSE BaseMinute + 1

StreamValue(key) == Int2V(10 + 2 * (key % 3))

StreamIngest ==
    /\ nReadings < MaxStream
    /\ sensorEffect(StreamLoc, Reading(Time(StreamKey * 60 + 15),
                                       StreamValue(StreamKey)))

FetchedLong ==
    \E n \in LongLens : fetchAllLocations([l \in Locs |-> n], BaseMinute + 1)

NextLong == FetchedLong \/ StreamIngest

SpecLong == Init /\ [][NextLong]_vars

\* ------------------------------------------------------ malformed readings
\* one location is offered malformed readings among well-formed ones, before
\* and after the mount fetch answers
BadLoc == "tank"

IngestAny ==
    /\ nReadings < MaxReadings
    /\ \E r \in Readings(BadLoc) \cup BadReadings : sensorEffect(BadLoc, r)

FetchedOnce ==
    \E n \in SeedLens : fetchAllLocations([l \in Locs |-> n], BaseMinute + 1)

NextBad == FetchedOnce \/ IngestAny

SpecBad == Init /\ [][NextBad]_vars

\* ------------------------------------------------------------- properties
Last(seq) == seq[Len(seq)]

AllFinite(vals) == \A i \in 1..Len(vals) : IsFiniteNum(vals[i]) /\ vals[i].d = 1

RECURSIVE IntSum(_)
IntSum(vals) == IF vals = <<>> THEN 0 ELSE Head(vals).n + IntSum(Tail(vals))

\* a is the arithmetic mean of the integers vals
IsMeanOf(a, vals) ==
    /\ a.k = "num"
    /\ a.n * Len(vals) = a.d * IntSum(vals)

IsMinOf(m, vals) ==
    /\ \E i \in 1..Len(vals) : vals[i] = m
    /\ \A i \in 1..Len(vals) : m.n <= vals[i].n

IsMaxOf(m, vals) ==
    /\ \E i \in 1..Len(vals) : vals[i] = m
    /\ \A i \in 1..Len(vals) : m.n >= vals[i].n

BucketStart(point) == point.timestamp.s

\* the step is a call of updateReading that returned
IngestStep == lastOp'.op = "updateReading" /\ ~lastOp'.threw /\ nReadings' # nReadings

\* C1: a location's history never holds more than HISTORY_MINUTES (59)
\* points, whatever fetches and readings came before
C1_BoundedHistory == \A l \in Locs : Len(history[l]) <= HISTORY_MINUTES

\* 61 readings in 61 consecutive minutes completed 60 minutes, and the
\* history holds 59 of them
C1_Witness ==
    /\ lastOp.op = "updateReading"
    /\ streak[StreamLoc].ok /\ streak[StreamLoc].n = HISTORY_MINUTES + 2
    /\ Len(history[StreamLoc]) = HISTORY_MINUTES

\* C2: the points of a location's history are strictly increasing in
\* bucket start, also when readings arrive out of timestamp order
C2_StrictlyOrdered ==
    \A l \in Locs : \A i \in 1..(Len(history[l]) - 1) :
        BucketStart(history[l][i]) < BucketStart(history[l][i + 1])

\* C3: a reading whose minute key is earlier than the key of the open
\* bucket (one that holds samples) is discarded: history, the open bucket's
\* key and its samples stay as they are
C3_EarlierReadingDiscarded ==
    [][(/\ IngestStep
        /\ buffer[lastOp'.loc].open
        /\ buffer[lastOp'.loc].readings # <<>>
        /\ getMinuteKey(lastOp'.ts) < buffer[lastOp'.loc].minuteKey)
       => (history' = history /\ buffer' = buffer)]_vars

\* C4: a reading whose value is not a finite number (NaN, Infinity, null,
\* undefined) leaves the open bucket's sample list unchanged
C4_NonFiniteValueDropped ==
    [][(IngestStep /\ ~IsFiniteNum(lastOp'.value))
       => buffer'[lastOp'.loc].readings = buffer[lastOp'.loc].readings]_vars

\* C5: updateReading never throws, whatever the reading's timestamp
C5_NeverThrows == lastOp.op = "updateReading" => ~lastOp.threw

\* C6: when a reading crosses a minute boundary, the point appended to the
\* history starts at the closed minute and carries the mean, minimum and
\* maximum of exactly the (finite) values read for that minute
C6_ClosedMinuteAggregated ==
    [][(/\ IngestStep
        /\ opened[lastOp'.loc].vals # <<>>
        /\ getMinuteKey(lastOp'.ts) # opened[lastOp'.loc].key
        /\ AllFinite(opened[lastOp'.loc].vals))
       => LET l == lastOp'.loc
              o == opened[l]
          IN  /\ Len(history'[l]) =
                   IF Len(history[l]) < HISTORY_MINUTES
                   THEN Len(history[l]) + 1 ELSE HISTORY_MINUTES
              /\ BucketStart(Last(history'[l])) = o.key * 60
              /\ IsMeanOf(Last(history'[l]).avg, o.vals)
              /\ IsMinOf(Last(history'[l]).min, o.vals)
              /\ IsMaxOf(Last(history'[l]).max, o.vals)]_vars

\* the minute holding 10 and 13 was closed: avg 11.5, min 10, max 13
C6_Witness ==
    /\ lastOp.op = "updateReading" /\ lastOp.loc = "tank"
    /\ Len(opened["tank"].vals) = 1
    /\ history["tank"] # <<>>
    /\ Last(history["tank"]).avg = Num(23, 2)
    /\ Last(history["tank"]).min = Int2V(10)
    /\ Last(history["tank"]).max = Int2V(13)
    /\ BucketStart(Last(history["tank"])) = (BaseMinute + 1) * 60

\* C7: k readings in k consecutive minutes (k <= 59) into an empty
\* aggregator, then one reading in the next minute: exactly k points, one
\* per each of the first k minutes in order, and the last minute still open
\* holding only the last reading
C7_BucketCount ==
    \A l \in Locs :
        (streak[l].ok /\ streak[l].n >= 1 /\ streak[l].n - 1 <= HISTORY_MINUTES)
        => /\ Len(history[l]) = streak[l].n - 1
           /\ \A i \in 1..Len(history[l]) :
                  BucketStart(history[l][i]) = (streak[l].first + i - 1) * 60
           /\ buffer[l].open
           /\ buffer[l].minuteKey = streak[l].first + streak[l].n - 1
           /\ buffer[l].readings = <<current[l].value>>

\* k = 59: sixty readings in sixty consecutive minutes
C7_Witness ==
    /\ streak[StreamLoc].ok /\ streak[StreamLoc].n = HISTORY_MINUTES + 1
    /\ Len(history[StreamLoc]) = HISTORY_MINUTES
    /\ lastOp.op = "updateReading"

\* the last m elements of a list
LastM(a, m) == [i \in 1..m |-> a[Len(a) - m + i]]

Min2(a, b) == IF a < b THEN a ELSE b

\* C8 as stated: right after a fetch of n rows the history is the last
\* min(n, 59) rows
C8_SeedKeepsLastRows ==
    lastOp.op = "fetch"
    => \A l \in Locs :
           history[l] = LastM(SeedData(lastOp.lens[l]),
                              Min2(lastOp.lens[l], HISTORY_MINUTES))

\* C8 amended: right after a fetch of n rows the history is the last
\* min(n - 1, 59) of the rows before the final one, in order and unchanged,
\* and the final row is the current reading; it is empty for n = 0
C8_SeedKeepsLastRowsButFinal ==
    lastOp.op = "fetch"
    => \A l \in Locs :
           LET n == lastOp.lens[l]
               rows == SeedData(n)
               m == IF n = 0 THEN 0 ELSE Min2(n - 1, HISTORY_MINUTES)
           IN  /\ history[l] = [i \in 1..m |-> rows[n - 1 - m + i]]
               /\ n > 0 => /\ current[l].set
                           /\ current[l].value = rows[n].avg
                           /\ current[l].timestamp = rows[n].timestamp

\* 61 rows fetched: the history is rows 2..60
C8_Witness ==
    /\ lastOp.op = "fetch"
    /\ lastOp.lens[StreamLoc] = HISTORY_MINUTES + 2
    /\ Len(history[StreamLoc]) = HISTORY_MINUTES
    /\ BucketStart(history[StreamLoc][1]) = (BaseMinute - HISTORY_MINUTES) * 60

\* C9: a fetch that completes after a location's readings were ingested
\* neither replaces that location's history nor resets its open bucket
C9_SeedOnlyBeforeIngest ==
    [][(/\ lastOp'.op = "fetch"
        /\ lastOp.op = "updateReading" /\ ~lastOp.threw)
       => /\ history'[lastOp.loc] = history[lastOp.loc]
          /\ buffer'[lastOp.loc].readings = buffer[lastOp.loc].readings]_vars

\* C10: the last point of a location's chart data is the live point; its avg
\* is the mean of the open bucket's (finite) samples, hence the latest raw
\* value when there is one sample, and the latest known value when the open
\* bucket holds no sample
C10_LiveValue ==
    \A l \in Locs :
        /\ (buffer[l].readings # <<>> /\ AllFinite(buffer[l].readings))
           => /\ current[l].set
              /\ Len(data(l)) = Len(history[l]) + 1
              /\ IsMeanOf(Last(data(l)).avg, buffer[l].readings)
              /\ Len(buffer[l].readings) = 1
                 => Last(data(l)).avg = current[l].value
        /\ (buffer[l].readings = <<>> /\ current[l].set)
           => Last(data(l)).avg = current[l].value

\* two different samples in the open bucket: 10 and 13, shown as 11.5
C10_Witness ==
    /\ buffer["tank"].readings = <<Int2V(10), Int2V(13)>>
    /\ Last(data("tank")).avg = Num(23, 2)

\* ================================================================ rates
\* ------------------------------------------------ more JavaScript numbers
\* value === null || value === undefined
IsNullish(v) == v.k \in {"null", "undef"}

\* a - b
JsSub(a, b) ==
    LET x == ToNumber(a)
        y == ToNumber(b)
    IN  CASE x.k = "nan" \/ y.k = "nan" -> NaN
          [] x.k = "inf" -> IF y.k = "inf" THEN NaN ELSE Infinity
          [] x.k = "ninf" -> IF y.k = "ninf" THEN NaN ELSE NegInfinity
          [] y.k = "inf" -> NegInfinity
          [] y.k = "ninf" -> Infinity
          [] OTHER -> Number("-", x, y)

\* a / b (the sign of a zero is not kept: a zero divisor counts as +0 and
\* a finite number over an infinite one is 0)
JsDiv(a, b) ==
    LET x == ToNumber(a)
        y == ToNumber(b)
    IN  CASE x.k = "nan" \/ y.k = "nan" -> NaN
          [] IsInfinite(x) ->
                IF IsInfinite(y) THEN NaN
                ELSE IF IsNegative(x) = IsNegative(y) THEN Infinity
                ELSE NegInfinity
          [] IsInfinite(y) -> Int2V(0)
          [] IsZero(y) ->
                IF IsZero(x) THEN NaN
                ELSE IF IsNegative(x) THEN NegInfinity ELSE Infinity
          [] OTHER -> Number("/", x, y)

\* ---------------------------------------------------- calculateRateArray
\* const hoursElapsed = RATE_LOOKBACK_MINUTES / 60
hoursElapsed == JsDiv(Int2V(RATE_LOOKBACK_MINUTES), Int2V(60))

\* the callback of points.map for the element at position idx (the
\* JavaScript index i is idx - 1); the rate against the previous point
\* instead of the one RATE_LOOKBACK_MINUTES earlier
RateAtPrevious(points, idx) ==
    IF idx - 1 < RATE_LOOKBACK_MINUTES \/ IsNullish(points[idx].avg)
    THEN JsNull
    ELSE LET pastPoint == points[idx - 1]
         IN  IF IsNullish(pastPoint.avg) THEN JsNull
             ELSE JsDiv(JsSub(points[idx].avg, pastPoint.avg), hoursElapsed)

RateAt(points, idx) ==
    IF idx - 1 < RATE_LOOKBACK_MINUTES \/ IsNullish(points[idx].avg)
    THEN JsNull
    ELSE LET pastPoint == points[idx - RATE_LOOKBACK_MINUTES]
         IN  IF IsNullish(pastPoint.avg) THEN JsNull
             ELSE JsDiv(JsSub(points[idx].avg, pastPoint.avg), hoursElapsed)

\* calculateRateArray with a rate of 0 where there is not enough history
calculateRateArrayZero(points) ==
    IF Len(points) < RATE_LOOKBACK_MINUTES + 1
    THEN [idx \in 1..Len(points) |-> Int2V(0)]
    ELSE [idx \in 1..Len(points) |-> RateAt(points, idx)]

\* calculateRateArray(points) for a list of points (points is never null
\* and holds no empty slot where the hook calls it)
calculateRateArray(points) ==
    IF Len(points) < RATE_LOOKBACK_MINUTES + 1
    THEN [idx \in 1..Len(points) |-> JsNull]
    ELSE [idx \in 1..Len(points) |-> RateAt(points, idx)]

\* the chart points of one location handed to calculateRateArray: averages
\* present and missing, the minutes of the points unevenly spaced
AvgValues == {JsNull, JsUndefined, Int2V(68), Num(141, 2)}

PointOf(i, avg) ==
    [timestamp |-> Time((BaseMinute + i * i) * 60), avg |-> avg,
     min |-> avg, max |-> avg]

PointList(avgs) == [i \in 1..Len(avgs) |-> PointOf(i, avgs[i])]

InitRate ==
    /\ HookInit
    /\ ServerInit
    /\ ClientInit
    /\ \E n \in 0..MaxPoints : \E avgs \in [1..n -> AvgValues] :
           call = [fn |-> "calculateRateArray", points |-> PointList(avgs)]
    /\ result = NoResult

\* the rates memo of useHistory for one location:
\* rateData[location] = calculateRateArray(data[location] || [], location)
rates ==
    /\ call.fn = "calculateRateArray"
    /\ ~result.returned
    /\ result' = [returned |-> TRUE, value |-> calculateRateArray(call.points)]
    /\ UNCHANGED <<call, hookVars, serverVars, clientVars>>

NextRate == rates

SpecRate == InitRate /\ [][NextRate]_vars

RateReturned == call.fn = "calculateRateArray" /\ result.returned

\* C11: the rate series of any point list, empty and shorter than six
\* included, is exactly as long as the list, and its entries at the first
\* five positions are null, never 0.
C11_SameLengthFirstFiveNull ==
    RateReturned =>
        /\ Len(result.value) = Len(call.points)
        /\ \A idx \in 1..Len(result.value) :
               idx <= 5 => result.value[idx] = JsNull

C11_Witness ==
    /\ RateReturned
    /\ Len(call.points) > 5
    /\ result.value[5] = JsNull
    /\ result.value[6].k = "num"

\* v = (a - b) * 12 for finite a and b
IsTwelveTimesDifference(v, a, b) ==
    /\ v.k = "num"
    /\ v.n * a.d * b.d = 12 * (a.n * b.d - b.n * a.d) * v.d

\* C12: at every position from the sixth on, the rate is (avg of the point
\* minus avg of the point exactly five positions earlier) times 12 when both
\* averages are present, whatever the time between the two points, and null
\* when either average is missing.
C12_RateOverFivePositions ==
    RateReturned =>
        \A idx \in 6..Len(call.points) :
            LET point == call.points[idx]
                pastPoint == call.points[idx - 5]
            IN  IF IsNullish(point.avg) \/ IsNullish(pastPoint.avg)
                THEN result.value[idx] = JsNull
                ELSE IsTwelveTimesDifference(result.value[idx], point.avg,
                                             pastPoint.avg)

C12_Witness ==
    /\ RateReturned
    /\ Len(call.points) = 7
    /\ result.value[6] = Int2V(30)
    /\ result.value[7] = JsNull
    /\ call.points[7].avg # JsNull
    /\ call.points[6].timestamp.s - call.points[1].timestamp.s # 5 * 60

\* =========================================================== formatRate
\* x < y on numbers: false when either is NaN
JsLt(a, b) ==
    CASE a.k = "nan" \/ b.k = "nan" -> FALSE
      [] a.k = "inf" \/ b.k = "ninf" -> FALSE
      [] a.k = "ninf" \/ b.k = "inf" -> TRUE
      [] OTHER -> NumberLess(a, b)

\* Math.abs(x)
MathAbs(a) ==
    LET x == ToNumber(a)
    IN  CASE x.k = "nan" -> NaN
          [] x.k \in {"inf", "ninf"} -> Infinity
          [] x.k = "double" -> [x EXCEPT !.neg = FALSE]
          [] OTHER -> Num(Abs(x.n), x.d)

\* isNaN(x) after ToNumber
isNaN(a) == ToNumber(a).k = "nan"

RECURSIVE Pow10(_)
Pow10(f) == IF f = 0 THEN 1 ELSE 10 * Pow10(f - 1)

\* floor(m * 2^e + 1/2)
BigRoundHalfUp(m, e) ==
    IF e >= 0 THEN BigShl(m, e)
    ELSE BigShr(BigAdd(m, BigShl(BigOfInt(1), -e - 1)), -e)

\* x.toFixed(f): the decimal numeral with f fraction digits nearest to the
\* double x, the larger magnitude on a tie, as its sign and the integer
\* scaled = |numeral| * 10^f; "Infinity", "-Infinity" and "NaN" for those
DoubleToFixed(v, f) ==
    [k |-> "fixed", neg |-> v.neg, f |-> f,
     scaled |-> BigToInt(BigRoundHalfUp(BigMulDigit(v.m, Pow10(f)), v.e))]

toFixed(x, f) ==
    IF IsFiniteNum(x)
    THEN DoubleToFixed(Double(x), f)
    ELSE [k |-> x.k, neg |-> x.k = "ninf", f |-> f, scaled |-> 0]

NoNumber == [k |-> "none", neg |-> FALSE, f |-> 0, scaled |-> 0]

\* the text of a formatted rate: form "dash" is the lone dash, "stable" is
\* the arrow-and-word "stable" text, "perHour" and "perMinute" are
\* `${arrow} ${sign}${number}` followed by the unit per hour or per minute
Text(form, arrow, sign, number) ==
    [form |-> form, arrow |-> arrow, sign |-> sign, number |-> number]

\* absRate < 0.5, and the same test taking 0.5 in
IsStableRateInclusive(absRate) == ~JsLt(Num(1, 2), absRate)

IsStableRate(absRate) == JsLt(absRate, Num(1, 2))

\* absRate > 10, and the same test taking 10 in
IsFastRateInclusive(absRate) == ~JsLt(absRate, Int2V(10))

IsFastRate(absRate) == JsLt(Int2V(10), absRate)

\* const ratePerMinute = ratePerHour / 60, and the rate left per hour
RatePerMinuteUndivided(ratePerHour) == ratePerHour

RatePerMinute(ratePerHour) == JsDiv(ratePerHour, Int2V(60))

\* formatRate(ratePerHour, isHeating): isHeating is not read
formatRate(ratePerHour, isHeating) ==
    IF IsNullish(ratePerHour) \/ isNaN(ratePerHour)
    THEN [text |-> Text("dash", "", "", NoNumber), className |-> "stable"]
    ELSE LET absRate == MathAbs(ratePerHour)
             positive == JsLt(Int2V(0), ratePerHour)
             sign == IF positive THEN "+" ELSE ""
             arrow == IF positive THEN "up" ELSE "down"
             className == IF positive THEN "heating" ELSE "cooling"
         IN  IF IsStableRate(absRate)
             THEN [text |-> Text("stable", "right", "", NoNumber),
                   className |-> "stable"]
             ELSE IF IsFastRate(absRate)
             THEN [text |-> Text("perMinute", arrow, sign,
                                 toFixed(RatePerMinute(ratePerHour), 2)),
                   className |-> className]
             ELSE [text |-> Text("perHour", arrow, sign, toFixed(ratePerHour, 1)),
                   className |-> className]

\* the rates handed to formatRate: every tenth up to MaxTenths tenths, values
\* just inside the two thresholds, and the values that are no number
RateInputs ==
    {Num(n, 10) : n \in (-MaxTenths)..MaxTenths}
    \cup {Num(49, 100), Num(-49, 100), Num(1001, 100), Num(-1001, 100)}
    \cup {JsNull, JsUndefined, NaN, Infinity, NegInfinity}

InitFormat ==
    /\ HookInit
    /\ ServerInit
    /\ ClientInit
    /\ call \in {[fn |-> "formatRate", ratePerHour |-> r, isHeating |-> h] :
                   r \in RateInputs, h \in BOOLEAN}
    /\ result = NoResult

formatRateReturns ==
    /\ call.fn = "formatRate"
    /\ ~result.returned
    /\ result' = [returned |-> TRUE,
                  value |-> formatRate(call.ratePerHour, call.isHeating)]
    /\ UNCHANGED <<call, hookVars, serverVars, clientVars>>

NextFormat == formatRateReturns

SpecFormat == InitFormat /\ [][NextFormat]_vars

FormatReturned == call.fn = "formatRate" /\ result.returned

\* the rate is absent: null, undefined or NaN
RateAbsent(r) == r.k \in {"null", "undef", "nan"}

\* the rate is a number of magnitude below one half
RateBelowHalf(r) == r.k = "num" /\ 2 * Abs(r.n) < r.d

\* C13: the rate is given the neutral class "stable" exactly when it is
\* absent (null, undefined, NaN) or its magnitude is below 0.5: a nonzero
\* rate below 0.5 is stable, a rate of magnitude exactly 0.5 is not.  A
\* stable rate is shown without a numeral: the word "stable", or a lone dash
\* when the rate is absent.
C13_StableExactlyWhenAbsentOrSmall ==
    FormatReturned =>
        /\ result.value.className = "stable"
             <=> (RateAbsent(call.ratePerHour) \/ RateBelowHalf(call.ratePerHour))
        /\ result.value.className = "stable"
             <=> result.value.text.form \in {"stable", "dash"}
        /\ call.ratePerHour \in {Num(3, 10), Num(-49, 100)}
             => result.value.text.form = "stable"
        /\ call.ratePerHour \in {Num(1, 2), Num(-1, 2)}
             => result.value.className # "stable"

C13_Witness ==
    /\ FormatReturned
    /\ call.ratePerHour = Num(-49, 100)
    /\ result.value.className = "stable"
    /\ result.value.text.form = "stable"

\* the numeral shown is x = n/d to f fraction digits: within half a unit of
\* the last digit of |x|, and signed as x
ShowsRounded(number, n, d, f) ==
    /\ number.k = "fixed"
    /\ number.f = f
    /\ number.neg = (n < 0)
    /\ 2 * Abs(number.scaled * d - Abs(n) * Pow10(f)) <= d

\* C14: a rate of magnitude from 0.5 to 10 is rendered per hour (one fraction
\* digit), one of magnitude above 10 per minute showing rate/60 (two fraction
\* digits); a positive rate carries the rising class, the up arrow and a
\* plus sign, a negative one the falling class and the down arrow.
C14_PerHourPerMinute ==
    FormatReturned /\ call.ratePerHour.k = "num"
                   /\ ~RateBelowHalf(call.ratePerHour) =>
        LET r == call.ratePerHour
            v == result.value
        IN  /\ IF Abs(r.n) <= 10 * r.d
               THEN /\ v.text.form = "perHour"
                    /\ ShowsRounded(v.text.number, r.n, r.d, 1)
               ELSE /\ v.text.form = "perMinute"
                    /\ ShowsRounded(v.text.number, r.n, r.d * 60, 2)
            /\ r.n > 0 => /\ v.className = "heating"
                          /\ v.text.arrow = "up"
                          /\ v.text.sign = "+"
            /\ r.n < 0 => /\ v.className = "cooling"
                          /\ v.text.arrow = "down"
                          /\ v.text.sign = ""

C14_Witness ==
    /\ FormatReturned
    /\ call.ratePerHour = Int2V(-10)
    /\ result.value.text.form = "perHour"
    /\ result.value.text.number.scaled = 100
    /\ result.value.className = "cooling"

\* C15 as stated: formatRate(24.0) is rendered per hour, formatRate(15.0)
\* per minute as 0.25 per minute, formatRate(0.3) as "stable".
C15_Examples ==
    FormatReturned =>
        /\ call.ratePerHour = Int2V(24) => result.value.text.form = "perHour"
        /\ call.ratePerHour = Int2V(15) =>
               /\ result.value.text.form = "perMinute"
               /\ result.value.text.number.scaled = 25
               /\ result.value.text.number.f = 2
        /\ call.ratePerHour = Num(3, 10) => result.value.text.form = "stable"

\* C15 amended: formatRate(24.0) is rendered per minute as +0.40 per minute
\* (24 is above 10), formatRate(15.0) per minute as +0.25 per minute,
\* formatRate(0.3) as "stable".
C15_ExamplesPerMinute ==
    FormatReturned =>
        /\ call.ratePerHour = Int2V(24) =>
               /\ result.value.text.form = "perMinute"
               /\ result.value.text.number.scaled = 40
               /\ result.value.text.number.f = 2
               /\ result.value.text.sign = "+"
        /\ call.ratePerHour = Int2V(15) =>
               /\ result.value.text.form = "perMinute"
               /\ result.value.text.number.scaled = 25
               /\ result.value.text.number.f = 2
               /\ result.value.text.sign = "+"
        /\ call.ratePerHour = Num(3, 10) =>
               /\ result.value.text.form = "stable"
               /\ result.value.className = "stable"

C15_Witness ==
    /\ FormatReturned
    /\ call.ratePerHour = Int2V(24)
    /\ result.value.text.form = "perMinute"

\* ================================================== calculateEnergyFlow
\* TANK_LOSS_COEFFICIENT_W_PER_C = 2.7 and the literal 1.8
TANK_LOSS_COEFFICIENT_W_PER_C == Num(27, 10)
FahrenheitPerCelsius == Num(9, 5)

\* a * b: an infinite factor gives NaN with a zero and an infinity of the
\* product's sign otherwise
JsMul(a, b) ==
    LET x == ToNumber(a)
        y == ToNumber(b)
    IN  CASE x.k = "nan" \/ y.k = "nan" -> NaN
          [] IsInfinite(x) \/ IsInfinite(y) ->
                IF IsZero(x) \/ IsZero(y) THEN NaN
                ELSE IF IsNegative(x) = IsNegative(y) THEN Infinity
                ELSE NegInfinity
          [] OTHER -> Number("*", x, y)

\* a <= b on numbers: false when either is NaN
JsLe(a, b) ==
    LET x == ToNumber(a)
        y == ToNumber(b)
    IN  x.k # "nan" /\ y.k # "nan" /\ ~JsLt(y, x)

\* a JavaScript boolean held in a result field that may also be null
JsBool(b) == [k |-> "bool", n |-> IF b THEN 1 ELSE 0, d |-> 1]

\* the default value of the heaterPower parameter applies to undefined only
HeaterPowerOrDefault(heaterPower) ==
    IF heaterPower.k = "undef" THEN Int2V(DEFAULT_HEATER_POWER_W) ELSE heaterPower

\* tankAccumulation with a missing tank rate taken as 0
TankAccumulationZero(tankRateFPerHr) ==
    LET tankRateCPerSec ==
            JsDiv(JsDiv(ToNumber(IF IsNullish(tankRateFPerHr) THEN Int2V(0)
                                 ELSE tankRateFPerHr),
                        FahrenheitPerCelsius), Int2V(3600))
    IN  JsMul(Int2V(TANK_THERMAL_MASS_J_PER_C), tankRateCPerSec)

\* result.tankAccumulation: null unless tankRateFPerHr != null
TankAccumulation(tankRateFPerHr) ==
    IF IsNullish(tankRateFPerHr) THEN JsNull
    ELSE LET tankRateCPerSec ==
                 JsDiv(JsDiv(tankRateFPerHr, FahrenheitPerCelsius), Int2V(3600))
         IN  JsMul(Int2V(TANK_THERMAL_MASS_J_PER_C), tankRateCPerSec)

\* x left as it is
ClampNone(x) == x

\* x clamped to 0 from below: if (x < 0) x = 0
ClampToZero(x) == IF JsLt(x, Int2V(0)) THEN Int2V(0) ELSE x

\* result.waterToFloor without the tank loss in the balance
WaterToFloorNoLoss(pumpOn, heaterInput, tankAccumulation, tankLoss) ==
    IF pumpOn /\ ~IsNullish(tankAccumulation)
    THEN ClampToZero(JsSub(heaterInput, tankAccumulation))
    ELSE IF ~pumpOn THEN Int2V(0)
    ELSE JsNull

\* result.waterToFloor computed from the balance whether the pump runs or not
WaterToFloorAnyPump(pumpOn, heaterInput, tankAccumulation, tankLoss) ==
    IF ~IsNullish(tankAccumulation)
    THEN ClampToZero(JsSub(JsSub(heaterInput, tankAccumulation), tankLoss))
    ELSE IF ~pumpOn THEN Int2V(0)
    ELSE JsNull

\* result.waterToFloor
WaterToFloor(pumpOn, heaterInput, tankAccumulation, tankLoss) ==
    IF pumpOn /\ ~IsNullish(tankAccumulation)
    THEN ClampToZero(JsSub(JsSub(heaterInput, tankAccumulation), tankLoss))
    ELSE IF ~pumpOn THEN Int2V(0)
    ELSE JsNull

\* the result object as first built, returned as it is when a mandatory
\* input is missing
InitialResult(heaterOn, pumpOn) ==
    [heaterInput |-> Int2V(0), tankAccumulation |-> JsNull, tankLoss |-> JsNull,
     floorOutput |-> JsNull, buildingLoss |-> JsNull, waterToFloor |-> JsNull,
     tankToAmbientDeltaF |-> JsNull, floorToRoomDeltaF |-> JsNull,
     roomToOutsideDeltaF |-> JsNull,
     heaterOn |-> heaterOn, pumpOn |-> pumpOn, valid |-> FALSE,
     maxCapacityDeltaF |-> JsNull, isKeepingUp |-> JsNull,
     bottleneckWatts |-> JsNull]

\* calculateEnergyFlow(params)
calculateEnergyFlow(p) ==
    IF IsNullish(p.tankTempF) \/ IsNullish(p.roomTempF)
    THEN InitialResult(p.heaterOn, p.pumpOn)
    ELSE LET heaterPower == HeaterPowerOrDefault(p.heaterPower)
             heaterInput == IF p.heaterOn THEN heaterPower ELSE Int2V(0)
             tankToAmbientDeltaF == JsSub(p.tankTempF, p.roomTempF)
             tankToAmbientDeltaC == JsDiv(tankToAmbientDeltaF, FahrenheitPerCelsius)
             tankLoss == JsMul(TANK_LOSS_COEFFICIENT_W_PER_C, tankToAmbientDeltaC)
             tankAccumulation == TankAccumulation(p.tankRateFPerHr)
             hasFloor == ~IsNullish(p.floorTempF)
             floorToRoomDeltaF ==
                 IF hasFloor THEN JsSub(p.floorTempF, p.roomTempF) ELSE JsNull
             floorOutput ==
                 IF hasFloor
                 THEN ClampToZero(JsMul(Int2V(FLOOR_TO_ROOM_UA_W_PER_F),
                                        floorToRoomDeltaF))
                 ELSE JsNull
             hasOutside == ~IsNullish(p.outsideTempF)
             roomToOutsideDeltaF ==
                 IF hasOutside THEN JsSub(p.roomTempF, p.outsideTempF) ELSE JsNull
             buildingLoss ==
                 IF hasOutside
                 THEN JsMul(Int2V(BUILDING_UA_W_PER_F), roomToOutsideDeltaF)
                 ELSE JsNull
         IN  [heaterInput |-> heaterInput,
              tankAccumulation |-> tankAccumulation,
              tankLoss |-> tankLoss,
              floorOutput |-> floorOutput,
              buildingLoss |-> buildingLoss,
              waterToFloor |-> WaterToFloor(p.pumpOn, heaterInput,
                                            tankAccumulation, tankLoss),
              tankToAmbientDeltaF |-> tankToAmbientDeltaF,
              floorToRoomDeltaF |-> floorToRoomDeltaF,
              roomToOutsideDeltaF |-> roomToOutsideDeltaF,
              heaterOn |-> p.heaterOn, pumpOn |-> p.pumpOn, valid |-> TRUE,
              maxCapacityDeltaF |-> JsDiv(heaterPower, Int2V(BUILDING_UA_W_PER_F)),
              isKeepingUp |-> IF ~IsNullish(buildingLoss)
                              THEN JsBool(JsLe(buildingLoss, heaterPower))
                              ELSE JsNull,
              bottleneckWatts |-> IF hasFloor THEN floorOutput ELSE JsNull]

\* the parameters handed to calculateEnergyFlow: each temperature and the
\* tank rate present or missing, the floor above and below the room, the
\* building loss below and above the heater power, the tank warming and
\* cooling, the heater power given or left to its default
EnergyParams ==
    [tankTempF : {JsNull, JsUndefined, Int2V(150), Int2V(60)},
     floorTempF : {JsNull, Int2V(75), Int2V(70), Int2V(65)},
     roomTempF : {JsNull, JsUndefined, Int2V(70)},
     outsideTempF : {JsNull, Int2V(30), Int2V(20)},
     tankRateFPerHr : {JsNull, Int2V(6), Int2V(-6)},
     heaterOn : BOOLEAN,
     pumpOn : BOOLEAN,
     heaterPower : {JsUndefined, Int2V(1000)}]

InitEnergy ==
    /\ HookInit
    /\ ServerInit
    /\ ClientInit
    /\ \E p \in EnergyParams : call = [fn |-> "calculateEnergyFlow", params |-> p]
    /\ result = NoResult

calculateEnergyFlowReturns ==
    /\ call.fn = "calculateEnergyFlow"
    /\ ~result.returned
    /\ result' = [returned |-> TRUE, value |-> calculateEnergyFlow(call.params)]
    /\ UNCHANGED <<call, hookVars, serverVars, clientVars>>

NextEnergy == calculateEnergyFlowReturns

SpecEnergy == InitEnergy /\ [][NextEnergy]_vars

EnergyReturned == call.fn = "calculateEnergyFlow" /\ result.returned

MandatoryPresent(p) == ~IsNullish(p.tankTempF) /\ ~IsNullish(p.roomTempF)

\* C16: when the tank or the room temperature is missing the result has
\* valid = false and every numeric field (the flows in watts, the
\* temperature differences, the capacity figures) is null, whatever the
\* other inputs are.
C16_InvalidAllNumericAbsent ==
    EnergyReturned /\ ~MandatoryPresent(call.params) =>
        LET r == result.value
        IN  /\ r.valid = FALSE
            /\ \A v \in {r.heaterInput, r.tankAccumulation, r.tankLoss,
                         r.floorOutput, r.buildingLoss, r.waterToFloor,
                         r.tankToAmbientDeltaF, r.floorToRoomDeltaF,
                         r.roomToOutsideDeltaF, r.maxCapacityDeltaF,
                         r.bottleneckWatts} : v = JsNull

\* C17: with the tank and room temperatures present the result has
\* valid = true, tankLoss and tankToAmbientDeltaF are numbers, and each other
\* derived field is null exactly when its own input is missing: floorOutput
\* and floorToRoomDeltaF with the floor temperature; buildingLoss,
\* roomToOutsideDeltaF and isKeepingUp with the outside temperature;
\* tankAccumulation with the tank rate.
C17_AbsentExactlyWhenInputMissing ==
    EnergyReturned /\ MandatoryPresent(call.params) =>
        LET r == result.value
            p == call.params
        IN  /\ r.valid = TRUE
            /\ IsFiniteNum(r.tankLoss)
            /\ IsFiniteNum(r.tankToAmbientDeltaF)
            /\ IF IsNullish(p.floorTempF)
               THEN r.floorOutput = JsNull /\ r.floorToRoomDeltaF = JsNull
               ELSE IsFiniteNum(r.floorOutput) /\ IsFiniteNum(r.floorToRoomDeltaF)
            /\ IF IsNullish(p.outsideTempF)
               THEN /\ r.buildingLoss = JsNull
                    /\ r.roomToOutsideDeltaF = JsNull
                    /\ r.isKeepingUp = JsNull
               ELSE /\ IsFiniteNum(r.buildingLoss)
                    /\ IsFiniteNum(r.roomToOutsideDeltaF)
                    /\ r.isKeepingUp.k = "bool"
            /\ IF IsNullish(p.tankRateFPerHr)
               THEN r.tankAccumulation = JsNull
               ELSE IsFiniteNum(r.tankAccumulation)

C17_Witness ==
    /\ EnergyReturned
    /\ call.params.tankTempF = Int2V(150)
    /\ call.params.roomTempF = Int2V(70)
    /\ call.params.outsideTempF = JsNull
    /\ call.params.floorTempF = Int2V(75)
    /\ call.params.tankRateFPerHr = JsNull
    /\ result.value.valid
    /\ result.value.buildingLoss = JsNull
    /\ result.value.tankLoss = Int2V(120)
    /\ result.value.tankToAmbientDeltaF = Int2V(80)
    /\ result.value.floorOutput = Int2V(30)

\* C18: with the pump off (tank and room temperatures present) waterToFloor
\* is exactly 0, whatever the heater state, the heater power and the tank
\* accumulation.
C18_PumpOffNoWaterToFloor ==
    EnergyReturned /\ MandatoryPresent(call.params) /\ ~call.params.pumpOn =>
        result.value.waterToFloor = Int2V(0)

C18_Witness ==
    /\ EnergyReturned
    /\ MandatoryPresent(call.params)
    /\ ~call.params.pumpOn
    /\ call.params.heaterOn
    /\ call.params.tankRateFPerHr = Int2V(-6)
    /\ IsNegative(result.value.tankAccumulation)
    /\ result.value.waterToFloor = Int2V(0)

\* ======================================================= channel isolation
\* C19: ingesting a reading for one location changes only that location:
\* the history, the open minute (key and samples), the current reading and
\* the live chart point of every other location stay as they were.
C19_OtherChannelsUnchanged ==
    [][IngestStep =>
          \A l \in Locs \ {lastOp'.loc} :
              /\ history'[l] = history[l]
              /\ buffer'[l] = buffer[l]
              /\ current'[l] = current[l]
              /\ current[l].set =>
                     LivePoint(current'[l], buffer'[l])
                         = LivePoint(current[l], buffer[l])]_vars

C19_Witness ==
    /\ lastOp.op = "updateReading"
    /\ lastOp.loc = "tank"
    /\ ~lastOp.threw
    /\ history["tank"] # <<>>
    /\ Len(buffer["tank"].readings) = 1
    /\ history["desk"] # <<>>
    /\ buffer["desk"].readings # <<>>
    /\ current["desk"].set

\* ======================================================= websocket server
\* a sensor_update message: one of the initial readings sent on connect, or
\* the n-th update broadcast from MQTT
InitialMessage(sensor) == [type |-> "initial", sensor |-> sensor, n |-> 0]
LiveMessage(sensor, n) == [type |-> "live", sensor |-> sensor, n |-> n]

\* wss.on('connection'): the socket joins clients, then the handler awaits
\* getCurrentReadings()
connection(w) ==
    /\ ~uncaught
    /\ readyState[w] = "NONE"
    /\ readyState' = [readyState EXCEPT ![w] = "OPEN"]
    /\ clients' = clients \cup {w}
    /\ handler' = [handler EXCEPT ![w] = "awaiting"]
    /\ UNCHANGED <<received, current_readings, nUpdates, uncaught, hookVars,
                   pureVars, clientVars>>

\* getCurrentReadings() resolved: every reading is sent if the socket is
\* open, then the close and error handlers are registered
sendCurrentReadings(w) ==
    /\ ~uncaught
    /\ handler[w] = "awaiting"
    /\ received' = [received EXCEPT
                      ![w] = IF readyState[w] = "OPEN"
                             THEN @ \o [i \in 1..Len(current_readings) |->
                                          InitialMessage(current_readings[i])]
                             ELSE @]
    /\ handler' = [handler EXCEPT ![w] = "listening"]
    /\ UNCHANGED <<clients, readyState, current_readings, nUpdates, uncaught,
                   hookVars, pureVars, clientVars>>

\* getCurrentReadings() rejected: the error is logged, nothing is sent, the
\* close and error handlers are registered
readingsFailed(w) ==
    /\ ~uncaught
    /\ handler[w] = "awaiting"
    /\ handler' = [handler EXCEPT ![w] = "listening"]
    /\ UNCHANGED <<clients, readyState, received, current_readings, nUpdates,
                   uncaught, hookVars, pureVars, clientVars>>

\* the socket closes: the close handler, if registered by now, removes it
\* from clients
close(w) ==
    /\ ~uncaught
    /\ readyState[w] = "OPEN"
    /\ readyState' = [readyState EXCEPT ![w] = "CLOSED"]
    /\ clients' = IF handler[w] = "listening" THEN clients \ {w} ELSE clients
    /\ UNCHANGED <<handler, received, current_readings, nUpdates, uncaught,
                   hookVars, pureVars, clientVars>>

\* the socket emits 'error'.  Once the handlers are registered the error
\* handler removes it from clients, whatever its readyState.  While the
\* connection handler still awaits getCurrentReadings() no listener is
\* registered: the event is thrown as an exception that nothing catches,
\* the socket stays in clients and the process ends
error(w) ==
    /\ ~uncaught
    /\ handler[w] \in {"awaiting", "listening"}
    /\ IF handler[w] = "listening"
       THEN clients' = clients \ {w} /\ UNCHANGED uncaught
       ELSE uncaught' = TRUE /\ UNCHANGED clients
    /\ UNCHANGED <<readyState, handler, received, current_readings, nUpdates,
                   hookVars, pureVars, clientVars>>

\* broadcast(update), called for an MQTT message of a sensor
broadcast(sensor) ==
    /\ ~uncaught
    /\ nUpdates < MaxUpdates
    /\ nUpdates' = nUpdates + 1
    /\ received' = [w \in Sockets |->
                      IF w \in clients /\ readyState[w] = "OPEN"
                      THEN Append(received[w], LiveMessage(sensor, nUpdates + 1))
                      ELSE received[w]]
    /\ UNCHANGED <<clients, readyState, handler, current_readings, uncaught,
                   hookVars, pureVars, clientVars>>

Connected == \E w \in Sockets : connection(w)
InitialSent == \E w \in Sockets : sendCurrentReadings(w)
InitialFailed == \E w \in Sockets : readingsFailed(w)
Closed == \E w \in Sockets : close(w)
Errored == \E w \in Sockets : error(w)
Broadcast == \E i \in 1..Len(Rows) : broadcast(Rows[i])

NextServer ==
    Connected \/ InitialSent \/ InitialFailed \/ Closed \/ Errored \/ Broadcast

SpecServer == Init /\ [][NextServer]_vars

\* C20: a client receives its complete initial snapshot, one message per
\* current reading, before any live update: no broadcast message comes
\* ahead of or in between the initial messages.
C20_SnapshotBeforeLive ==
    \A w \in Sockets :
        \A i \in 1..Len(received[w]) :
            received[w][i].type = "live" =>
                /\ i > Len(current_readings)
                /\ \A j \in 1..Len(current_readings) :
                       received[w][j] = InitialMessage(current_readings[j])

\* ===================================================== history is a queue
\* C21: an ingest changes a location's history at most by appending one
\* point at the end and dropping one point, the oldest, from the front; the
\* points that stay are unchanged and in the same order.
C21_AppendAtEndEvictAtFront ==
    [][IngestStep =>
          \A l \in Locs :
              LET h == history[l]
                  h2 == history'[l]
              IN  \/ h2 = h
                  \/ /\ Len(h2) = Len(h) + 1
                     /\ SubSeq(h2, 1, Len(h)) = h
                  \/ /\ Len(h2) = Len(h)
                     /\ Len(h) >= 1
                     /\ SubSeq(h2, 1, Len(h) - 1) = Tail(h)]_vars

\* the stream completed more minutes than the history holds: the point
\* appended last pushed out the oldest
C21_Witness ==
    /\ lastOp.op = "updateReading"
    /\ Len(history[StreamLoc]) = HISTORY_MINUTES
    /\ streak[StreamLoc].ok
    /\ streak[StreamLoc].n = HISTORY_MINUTES + 2
    /\ BucketStart(history[StreamLoc][1]) = (streak[StreamLoc].first + 1) * 60

\* C22: no point is made for a minute without readings: an ingest that
\* changes the history adds exactly one point, for the minute that was open
\* and had readings, not for the minutes between it and the new reading.
C22_NoBucketForSilentMinute ==
    [][IngestStep =>
          LET l == lastOp'.loc
              key == getMinuteKey(lastOp'.ts)
          IN  history'[l] # history[l] =>
                  /\ Len(history'[l]) = Len(history[l]) + 1
                  /\ SubSeq(history'[l], 1, Len(history[l])) = history[l]
                  /\ buffer[l].open
                  /\ buffer[l].readings # <<>>
                  /\ opened[l].vals # <<>>
                  /\ opened[l].key = buffer[l].minuteKey
                  /\ buffer[l].minuteKey # key
                  /\ BucketStart(Last(history'[l])) = buffer[l].minuteKey * 60]_vars

\* readings in minute BaseMinute + 1 and then BaseMinute + 3: the history
\* ends with the point of BaseMinute + 1
C22_Witness ==
    /\ lastOp.op = "updateReading"
    /\ lastOp.loc = "tank"
    /\ history["tank"] # <<>>
    /\ BucketStart(Last(history["tank"])) = (BaseMinute + 1) * 60
    /\ buffer["tank"].minuteKey = BaseMinute + 3
    /\ Len(buffer["tank"].readings) = 1

\* ===================================================== energy flow values
\* the rational n/d as a value, compared by cross multiplication
IsRational(v, n, d) == v.k = "num" /\ v.n * d = n * v.d

\* a double within 2^-30 of the rational n/d, which the roundings of a few
\* operations on values below 2^20 leave it
IsDoubleNear(v, n, d) ==
    /\ IsFiniteNum(v)
    /\ JsLt(MathAbs(JsSub(v, Num(n, d))), Num(1, 2^30))

\* C23: with the pump on and a tank rate given, waterToFloor is
\* max(0, heaterInput - tankAccumulation - tankLoss), heaterInput being the
\* heater power when the heater is on and 0 when it is off; with the pump on
\* and no tank rate, waterToFloor is null, not 0.
C23_WaterToFloorBalance ==
    EnergyReturned /\ MandatoryPresent(call.params) /\ call.params.pumpOn =>
        LET r == result.value
            p == call.params
            power == IF p.heaterPower.k = "undef" THEN 1400 ELSE p.heaterPower.n
        IN  /\ r.heaterInput = IF p.heaterOn THEN Int2V(power) ELSE Int2V(0)
            /\ IF IsNullish(p.tankRateFPerHr)
               THEN r.waterToFloor = JsNull
               ELSE LET balance == JsSub(JsSub(r.heaterInput, r.tankAccumulation),
                                         r.tankLoss)
                    IN  /\ IsFiniteNum(balance)
                        /\ r.waterToFloor =
                               IF JsLt(Int2V(0), balance) THEN balance
                               ELSE Int2V(0)

\* heater on at 1400 W, tank warming 6 degrees per hour and 80 degrees above
\* the room: 1400 - 316880 * (6 / 1.8) / 3600 - 120 watts go to the floor
C23_Witness ==
    /\ EnergyReturned
    /\ call.params.pumpOn
    /\ call.params.heaterOn
    /\ call.params.heaterPower = JsUndefined
    /\ call.params.tankTempF = Int2V(150)
    /\ call.params.roomTempF = Int2V(70)
    /\ call.params.tankRateFPerHr = Int2V(6)
    /\ IsDoubleNear(result.value.tankAccumulation, 316880 * 6 * 5, 9 * 3600)
    /\ IsDoubleNear(result.value.waterToFloor,
                    1280 * 9 * 3600 - 316880 * 6 * 5, 9 * 3600)
    /\ JsLt(Int2V(986), result.value.waterToFloor)
    /\ JsLt(result.value.waterToFloor, Int2V(987))

\* C24: in a valid result with a floor temperature, floorOutput is 6 times
\* (floor - room) when the floor is warmer than the room and exactly 0
\* otherwise; it is never negative.
C24_FloorOutputClamped ==
    EnergyReturned /\ MandatoryPresent(call.params)
                   /\ ~IsNullish(call.params.floorTempF) =>
        LET r == result.value
            floor == call.params.floorTempF
            room == call.params.roomTempF
        IN  /\ r.floorOutput.k = "num"
            /\ r.floorOutput.n >= 0
            /\ IF floor.n * room.d > room.n * floor.d
               THEN IsRational(r.floorOutput,
                               6 * (floor.n * room.d - room.n * floor.d),
                               floor.d * room.d)
               ELSE r.floorOutput = Int2V(0)

\* the floor is 5 degrees colder than the room
C24_Witness ==
    /\ EnergyReturned
    /\ MandatoryPresent(call.params)
    /\ call.params.floorTempF = Int2V(65)
    /\ call.params.roomTempF = Int2V(70)
    /\ result.value.floorToRoomDeltaF = Int2V(-5)
    /\ result.value.floorOutput = Int2V(0)

\* ================================================= water-side extraction
\* Math.round(x): the nearest integer, the larger one on a tie
\* Math.round(x) = floor(x + 1/2): of a double from the nearest integer r
\* to its magnitude, the larger one on a tie
DoubleRound(a, r) == IF ~a.neg THEN r ELSE IF a.e = -1 THEN 1 - r ELSE -r

DoubleRounded(a) ==
    Int2V(DoubleRound(a, BigToInt(BigRoundHalfUp(a.m, a.e))))

MathRound(a) ==
    LET x == ToNumber(a)
    IN  IF ~IsFiniteNum(x) THEN x
        ELSE IF IsShort(x) THEN Int2V((2 * x.n + x.d) \div (2 * x.d))
        ELSE DoubleRounded(Double(x))

\* const flowRateKgPerSec = 0.063 and const specificHeat = 4186
flowRateKgPerSec == Num(63, 1000)
specificHeat == Int2V(4186)

\* calculateFloorDelta(beginningTempPast, endTempNow)
calculateFloorDelta(beginningTempPast, endTempNow) ==
    IF IsNullish(beginningTempPast) \/ IsNullish(endTempNow)
    THEN [deltaF |-> JsNull, wattsExtracted |-> JsNull, valid |-> FALSE]
    ELSE LET deltaF == JsSub(beginningTempPast, endTempNow)
             deltaCelsius == JsDiv(deltaF, FahrenheitPerCelsius)
             wattsExtracted ==
                 JsMul(JsMul(flowRateKgPerSec, specificHeat), deltaCelsius)
         IN  [deltaF |-> deltaF, wattsExtracted |-> MathRound(wattsExtracted),
              valid |-> TRUE]

\* the water-side block of the panel shown whenever floorDelta is valid
WaterSideAnyPump(pumpState, floorDelta) ==
    IF floorDelta.valid
    THEN [shown |-> TRUE, watts |-> floorDelta.wattsExtracted,
          drop |-> floorDelta.deltaF]
    ELSE [shown |-> FALSE, watts |-> JsNull, drop |-> JsNull]

\* the water-side block of the panel: {pumpState && floorDelta.valid && ...}
\* shows floorDelta.wattsExtracted and floorDelta.deltaF
WaterSide(pumpState, floorDelta) ==
    IF pumpState /\ floorDelta.valid
    THEN [shown |-> TRUE, watts |-> floorDelta.wattsExtracted,
          drop |-> floorDelta.deltaF]
    ELSE [shown |-> FALSE, watts |-> JsNull, drop |-> JsNull]

\* the loop temperatures handed to the panel: missing, or whole degrees
LoopTemps(base) == {JsNull, JsUndefined} \cup {Int2V(base + k) : k \in 0..MaxDegrees}

InitFloorDelta ==
    /\ HookInit
    /\ ServerInit
    /\ ClientInit
    /\ \E pumpState \in BOOLEAN, b \in LoopTemps(90), e \in LoopTemps(88) :
           call = [fn |-> "calculateFloorDelta", pumpState |-> pumpState,
                   beginningTempPast |-> b, endTempNow |-> e]
    /\ result = NoResult

\* EnergyFlow computes floorDelta and renders the water-side block
calculateFloorDeltaReturns ==
    /\ call.fn = "calculateFloorDelta"
    /\ ~result.returned
    /\ result' =
           LET floorDelta == calculateFloorDelta(call.beginningTempPast,
                                                 call.endTempNow)
           IN  [returned |-> TRUE, value |-> floorDelta,
                waterSide |-> WaterSide(call.pumpState, floorDelta)]
    /\ UNCHANGED <<call, hookVars, serverVars, clientVars>>

NextFloorDelta == calculateFloorDeltaReturns

SpecFloorDelta == InitFloorDelta /\ [][NextFloorDelta]_vars

FloorDeltaReturned == call.fn = "calculateFloorDelta" /\ result.returned

\* C25: the panel carries a water-side extraction value exactly when the
\* pump is on and both the past inlet temperature and the present outlet
\* temperature are given; with the pump off or either one missing it
\* carries none (and with either one missing calculateFloorDelta itself
\* returns an invalid result without a value).
C25_ExtractionOnlyWithPumpAndBoth ==
    FloorDeltaReturned =>
        LET both == ~IsNullish(call.beginningTempPast)
                    /\ ~IsNullish(call.endTempNow)
        IN  /\ result.waterSide.shown <=> (call.pumpState /\ both)
            /\ result.waterSide.shown => result.waterSide.watts.k = "num"
            /\ ~result.waterSide.shown => result.waterSide.watts = JsNull
            /\ ~both => /\ ~result.value.valid
                        /\ result.value.wattsExtracted = JsNull
                        /\ result.value.deltaF = JsNull

\* pump on, inlet 92 three minutes ago, outlet 88 now: 0.063 * 4186 * 4 / 1.8
\* = 586.04 watts, shown as 586
C25_Witness ==
    /\ FloorDeltaReturned
    /\ call.pumpState
    /\ call.beginningTempPast = Int2V(92)
    /\ call.endTempNow = Int2V(88)
    /\ result.waterSide.shown
    /\ result.waterSide.watts = Int2V(586)
    /\ result.waterSide.drop = Int2V(4)

\* ================================================ time-shifted loop inlet
\* Dashboard.beginningTempPast: beginningHistory[length - offset]?.avg when
\* length >= offset (the JavaScript index length - offset is position
\* length - offset + 1 here), else null
beginningTempPast(beginningHistory) ==
    LET offset == FLOOR_TRANSIT_MINUTES
    IN  IF Len(beginningHistory) >= offset
        THEN beginningHistory[Len(beginningHistory) - offset + 1].avg
        ELSE JsNull

\* heatingLoopHistory.beginning || []: the chart data of the inlet location,
\* for which the streamed location stands
beginningHistory == data(StreamLoc)

\* C26: the past inlet value is the avg of the point exactly 3 positions
\* before the live point of the sequence (history with the live point
\* last), the bucket from 3 minutes in the past, and null when the sequence
\* has no such point.  The code reads index length - 3, which is the third
\* point from the end, 2 positions before the live point.
C26_PastInletThreeBeforeLive ==
    current[StreamLoc].set =>
        LET d == beginningHistory
        IN  /\ beginningTempPast(d) =
                   IF Len(d) >= 4 THEN d[Len(d) - 3].avg ELSE JsNull
            /\ streak[StreamLoc].ok /\ streak[StreamLoc].n >= 4 =>
                   beginningTempPast(d) # JsNull

\* ================================================ calculateEquilibrium
\* variant: the unrounded sum
EquilibriumRoomTempExact(outsideTempF, heaterPower) ==
    JsAdd(outsideTempF, JsDiv(heaterPower, Int2V(BUILDING_UA_W_PER_F)))

\* roomTempF of the returned object: Math.round(outsideTempF + deltaF) with
\* deltaF = heaterPower / BUILDING_UA_W_PER_F
EquilibriumRoomTemp(outsideTempF, heaterPower) ==
    LET deltaF == JsDiv(heaterPower, Int2V(BUILDING_UA_W_PER_F))
        roomTempF == JsAdd(outsideTempF, deltaF)
    IN  MathRound(roomTempF)

calculateEquilibrium(outsideTempF, heaterPower) ==
    IF IsNullish(outsideTempF)
    THEN [roomTempF |-> JsNull, valid |-> FALSE]
    ELSE [roomTempF |-> EquilibriumRoomTemp(outsideTempF, heaterPower),
          deltaF |-> MathRound(JsDiv(heaterPower,
                                     Int2V(BUILDING_UA_W_PER_F))),
          valid |-> TRUE]

OutsideTemps ==
    {JsNull, JsUndefined} \cup {Num(n, 10) : n \in (-MaxTenths)..MaxTenths}

\* whole watts, and 22.4 W: with -0.2 degrees outside the sum is a half
\* exactly and its double lies just below the half
HeaterPowers == {Int2V(0), Int2V(1000), Int2V(DEFAULT_HEATER_POWER_W),
                 Int2V(1600), Num(224, 10)}

InitEquilibrium ==
    /\ HookInit
    /\ ServerInit
    /\ ClientInit
    /\ \E outsideTempF \in OutsideTemps, heaterPower \in HeaterPowers :
           call = [fn |-> "calculateEquilibrium",
                   outsideTempF |-> outsideTempF, heaterPower |-> heaterPower]
    /\ result = NoResult

calculateEquilibriumReturns ==
    /\ call.fn = "calculateEquilibrium"
    /\ ~result.returned
    /\ result' = [returned |-> TRUE,
                  value |-> calculateEquilibrium(call.outsideTempF,
                                                 call.heaterPower)]
    /\ UNCHANGED <<call, hookVars, serverVars, clientVars>>

NextEquilibrium == calculateEquilibriumReturns

SpecEquilibrium == InitEquilibrium /\ [][NextEquilibrium]_vars

EquilibriumReturned == call.fn = "calculateEquilibrium" /\ result.returned

\* C27 as stated: the predicted room temperature equals
\* outside + heater_power / 32 for every outside temperature and power; a
\* missing outside temperature gives an invalid prediction with no room
\* temperature.
C27_RoomIsOutsidePlusGain ==
    EquilibriumReturned =>
        IF IsNullish(call.outsideTempF)
        THEN ~result.value.valid /\ result.value.roomTempF = JsNull
        ELSE /\ result.value.valid
             /\ result.value.roomTempF.k = "num"
             /\ result.value.roomTempF.n * 32 * call.outsideTempF.d
                        * call.heaterPower.d
                    = result.value.roomTempF.d
                        * (call.outsideTempF.n * 32 * call.heaterPower.d
                           + call.heaterPower.n * call.outsideTempF.d)

\* C27 amended: the predicted room temperature is the whole number nearest
\* to outside + heater_power / 32; a half rounds up, and rounds down only
\* when the sum, computed in binary64, lies below the half; a missing
\* outside temperature gives an invalid prediction with no room temperature.
C27_RoomIsRoundedOutsidePlusGain ==
    EquilibriumReturned =>
        IF IsNullish(call.outsideTempF)
        THEN ~result.value.valid /\ result.value.roomTempF = JsNull
        ELSE LET r == result.value.roomTempF
                 \* outside + power / 32 = num / den, den > 0
                 num == call.outsideTempF.n * 32 * call.heaterPower.d
                            + call.heaterPower.n * call.outsideTempF.d
                 den == 32 * call.outsideTempF.d * call.heaterPower.d
                 sum == JsAdd(call.outsideTempF,
                              JsDiv(call.heaterPower, Int2V(32)))
             IN  /\ result.value.valid
                 /\ r.k = "num" /\ r.d = 1
                 /\ 2 * (r.n * den - num) <= den
                 /\ 2 * (r.n * den - num) >= -den
                 /\ 2 * (r.n * den - num) = -den
                        => JsLt(sum, Num(2 * r.n + 1, 2))

C27_Witness ==
    /\ EquilibriumReturned
    /\ call.outsideTempF = Num(205, 10)
    /\ call.heaterPower = Int2V(DEFAULT_HEATER_POWER_W)
    /\ result.value.valid
    /\ result.value.roomTempF = Int2V(64)

\* ================================================ Dashboard -> EnergyFlow
\* sensors.x?.temperature: the current temperature of a sensor the dashboard
\* holds, undefined for a sensor it has no value for
SensorTemperature(sensors, name) == sensors[name]

\* the props of the <EnergyFlow> element the Dashboard renders
DashboardEnergyFlowProps(sensors, devices, tankRate, pastInlet) ==
    [tankTempF |-> SensorTemperature(sensors, "tank"),
     ambientTempF |-> SensorTemperature(sensors, "desk"),
     tankRate |-> tankRate,
     heaterState |-> devices.heater.state,
     heaterPower |-> devices.heater.power,
     pumpState |-> devices.pump.state,
     beginningTempPast |-> pastInlet,
     endTempNow |-> SensorTemperature(sensors, "end")]

\* destructuring a prop of the props object: undefined when it was not passed
Prop(props, name) ==
    IF name \in DOMAIN props THEN props[name] ELSE JsUndefined

\* the parameter object EnergyFlow hands to calculateEnergyFlow
EnergyFlowParams(props) ==
    [tankTempF |-> Prop(props, "tankTempF"),
     floorTempF |-> Prop(props, "floorTempF"),
     roomTempF |-> Prop(props, "roomTempF"),
     outsideTempF |-> Prop(props, "outsideTempF"),
     tankRateFPerHr |-> Prop(props, "tankRate"),
     heaterOn |-> Prop(props, "heaterState"),
     pumpOn |-> Prop(props, "pumpState"),
     heaterPower |-> Prop(props, "heaterPower")]

DashboardSensors ==
    [tank : {JsUndefined, Int2V(150), Int2V(60)},
     desk : {JsUndefined, Int2V(70), Int2V(68)},
     floor : {JsUndefined, Int2V(75)},
     outside : {JsUndefined, Int2V(30)},
     end : {JsUndefined, Int2V(88)}]

DashboardDevices ==
    [heater : [state : BOOLEAN, power : {JsUndefined, Int2V(1000)}],
     pump : [state : BOOLEAN]]

InitDashboard ==
    /\ HookInit
    /\ ServerInit
    /\ ClientInit
    /\ \E sensors \in DashboardSensors, devices \in DashboardDevices,
          tankRate \in {JsNull, Int2V(6)} :
           call = [fn |-> "EnergyFlow", sensors |-> sensors,
                   devices |-> devices, tankRate |-> tankRate,
                   beginningTempPast |-> JsNull]
    /\ result = NoResult

\* the Dashboard renders EnergyFlow, which computes the thermal snapshot
EnergyFlowRenders ==
    /\ call.fn = "EnergyFlow"
    /\ ~result.returned
    /\ result' =
           LET props == DashboardEnergyFlowProps(call.sensors, call.devices,
                                                 call.tankRate,
                                                 call.beginningTempPast)
               params == EnergyFlowParams(props)
           IN  [returned |-> TRUE, params |-> params,
                value |-> calculateEnergyFlow(params)]
    /\ UNCHANGED <<call, hookVars, serverVars, clientVars>>

NextDashboard == EnergyFlowRenders

SpecDashboard == InitDashboard /\ [][NextDashboard]_vars

EnergyFlowRendered == call.fn = "EnergyFlow" /\ result.returned

\* C29: whenever the dashboard holds a current tank temperature and a
\* current desk (room) temperature, the rendered snapshot is valid, and the
\* desk, floor and outside temperatures the dashboard holds are the
\* roomTempF, floorTempF and outsideTempF handed to calculateEnergyFlow.
C29_SnapshotValidWithTankAndRoom ==
    EnergyFlowRendered
        /\ ~IsNullish(call.sensors.tank) /\ ~IsNullish(call.sensors.desk) =>
        /\ result.value.valid
        /\ result.params.roomTempF = call.sensors.desk
        /\ result.params.floorTempF = call.sensors.floor
        /\ result.params.outsideTempF = call.sensors.outside

\* ================================================ ordering within a point
\* C30: after any sequence of ingests of finite readings, every point of a
\* channel's exposed sequence (each finalized bucket and the live point
\* appended last) satisfies min <= avg <= max.
C30_MinAvgMaxOrdered ==
    \A l \in Locs :
        \A i \in 1..Len(data(l)) :
            LET point == data(l)[i]
            IN  IsFiniteNum(point.min) /\ IsFiniteNum(point.avg)
                    /\ IsFiniteNum(point.max) =>
                    JsLe(point.min, point.avg) /\ JsLe(point.avg, point.max)

\* ================================================ useWebSocket (client)
\* variant: the delay without its cap
ReconnectDelayUncapped(attempts) == 1000 * 2^attempts

\* Math.min(1000 * Math.pow(2, reconnectAttempts.current), 30000)
ReconnectDelay(attempts) ==
    LET backoff == 1000 * 2^attempts
    IN  IF backoff < 30000 THEN backoff ELSE 30000

\* connect() returns at once while wsRef.current is connecting or open
ConnectReturnsEarly ==
    wsRef = "ws" /\ ws.readyState \in {"CONNECTING", "OPEN"}

\* connect(): unless it returns early, set the connection state, create the
\* socket with its handlers and store it in wsRef
connect ==
    IF ConnectReturnsEarly
    THEN UNCHANGED <<connectionState, ws, wsRef>>
    ELSE /\ connectionState' = IF reconnectAttempts > 0
                               THEN "reconnecting" ELSE "connecting"
         /\ ws' = [readyState |-> "CONNECTING", wasOpen |-> FALSE]
         /\ wsRef' = "ws"

\* the mount effect: connect()
mount ==
    /\ effect = "pending"
    /\ effect' = "mounted"
    /\ connect
    /\ clientOp' = "mount"
    /\ UNCHANGED <<reconnectTimeoutRef, reconnectAttempts, scheduledSinceOpen,
                   owed, cancelled, delivered>>
    /\ UNCHANGED <<hookVars, pureVars, serverVars>>

\* ws.onopen
onopen ==
    /\ ws.readyState = "CONNECTING"
    /\ ws' = [readyState |-> "OPEN", wasOpen |-> TRUE]
    /\ connectionState' = "connected"
    /\ reconnectAttempts' = 0
    /\ scheduledSinceOpen' = 0
    /\ clientOp' = "open"
    /\ UNCHANGED <<wsRef, reconnectTimeoutRef, effect, owed, cancelled,
                   delivered>>
    /\ UNCHANGED <<hookVars, pureVars, serverVars>>

\* ws.onmessage: the parsed message is handed to the onMessage callback
onmessage ==
    /\ ws.readyState \in {"OPEN", "CLOSING"}
    /\ delivered < MaxMessages
    /\ delivered' = delivered + 1
    /\ clientOp' = "message"
    /\ UNCHANGED <<connectionState, ws, wsRef, reconnectTimeoutRef,
                   reconnectAttempts, effect, scheduledSinceOpen, owed,
                   cancelled>>
    /\ UNCHANGED <<hookVars, pureVars, serverVars>>

\* ws.onclose(event): a close is clean only after the closing handshake of
\* a connection that was open
onclose(wasClean) ==
    /\ ws.readyState \in {"CONNECTING", "OPEN", "CLOSING"}
    /\ wasClean => ws.wasOpen
    /\ ~wasClean => reconnectAttempts < MaxAttempts
    /\ ws' = [ws EXCEPT !.readyState = "CLOSED"]
    /\ connectionState' = "disconnected"
    /\ wsRef' = "null"
    /\ IF ~wasClean
       THEN /\ reconnectTimeoutRef' =
                   [set |-> TRUE, pending |-> TRUE,
                    delay |-> ReconnectDelay(reconnectAttempts)]
            /\ reconnectAttempts' = reconnectAttempts + 1
            /\ scheduledSinceOpen' = scheduledSinceOpen + 1
            /\ owed' = TRUE
       ELSE UNCHANGED <<reconnectTimeoutRef, reconnectAttempts,
                        scheduledSinceOpen, owed>>
    /\ clientOp' = IF wasClean THEN "cleanClose" ELSE "uncleanClose"
    /\ UNCHANGED <<effect, cancelled, delivered>>
    /\ UNCHANGED <<hookVars, pureVars, serverVars>>

\* the timer of setTimeout fires: connect()
timeout ==
    /\ reconnectTimeoutRef.pending
    /\ reconnectTimeoutRef' = [reconnectTimeoutRef EXCEPT !.pending = FALSE]
    /\ connect
    /\ owed' = FALSE
    /\ clientOp' = "reconnect"
    /\ UNCHANGED <<reconnectAttempts, effect, scheduledSinceOpen, cancelled,
                   delivered>>
    /\ UNCHANGED <<hookVars, pureVars, serverVars>>

\* the cleanup of the mount effect: clearTimeout, close(1000) and forget
\* the socket
unmount ==
    /\ effect = "mounted"
    /\ effect' = "unmounted"
    /\ reconnectTimeoutRef' =
           IF reconnectTimeoutRef.set
           THEN [reconnectTimeoutRef EXCEPT !.pending = FALSE]
           ELSE reconnectTimeoutRef
    /\ cancelled' = (cancelled \/ reconnectTimeoutRef.pending)
    /\ ws' = IF wsRef = "ws" /\ ws.readyState \in {"CONNECTING", "OPEN"}
             THEN [ws EXCEPT !.readyState = "CLOSING"]
             ELSE ws
    /\ wsRef' = "null"
    /\ clientOp' = "unmount"
    /\ UNCHANGED <<connectionState, reconnectAttempts, scheduledSinceOpen,
                   owed, delivered>>
    /\ UNCHANGED <<hookVars, pureVars, serverVars>>

Closes == \E wasClean \in BOOLEAN : onclose(wasClean)

NextClient == mount \/ onopen \/ onmessage \/ Closes \/ timeout \/ unmount

SpecClient == Init /\ [][NextClient]_vars

\* the event loop runs the callback of every timer that stays pending
SpecClientLive == SpecClient /\ WF_vars(timeout)

\* the steps of the backoff: an unclean close schedules the reconnect after
\* min(1000 * 2^n, 30000) ms, never more than 30 s, n being the reconnects
\* scheduled since the last open; an open resets the count; a clean close
\* schedules nothing
BackoffStep ==
    /\ clientOp' = "uncleanClose" =>
           /\ reconnectTimeoutRef'.pending
           /\ reconnectTimeoutRef'.delay <= 30000
           /\ \/ reconnectTimeoutRef'.delay = 1000 * 2^scheduledSinceOpen
              \/ /\ reconnectTimeoutRef'.delay = 30000
                 /\ 1000 * 2^scheduledSinceOpen >= 30000
           /\ reconnectAttempts' = scheduledSinceOpen'
    /\ clientOp' = "open" => reconnectAttempts' = 0
    /\ clientOp' = "cleanClose" =>
           /\ reconnectTimeoutRef' = reconnectTimeoutRef
           /\ reconnectAttempts' = reconnectAttempts
           /\ ~reconnectTimeoutRef'.pending

\* C28 as stated: after every unclean close a reconnect attempt is
\* eventually made, scheduled after min(1000 * 2^n, 30000) ms with n the
\* reconnects scheduled since the last successful open; n is reset on every
\* open, the delay never exceeds 30 s, a clean close schedules no reconnect.
C28_ReconnectAfterEveryUncleanClose ==
    /\ [][BackoffStep]_vars
    /\ owed ~> ~owed

\* C28 amended: as stated, except that the reconnect attempt is eventually
\* made unless the cleanup of the unmounting hook clears the pending timer.
C28_ReconnectUnlessUnmounted ==
    /\ [][BackoffStep]_vars
    /\ owed ~> (~owed \/ cancelled)

C28_Witness ==
    /\ clientOp = "reconnect"
    /\ effect = "mounted"
    /\ ~owed
    /\ ws.readyState = "CONNECTING"
    /\ reconnectAttempts = 8
    /\ reconnectTimeoutRef.delay = 30000
====
